---------------------------- MODULE Spec2Model ----------------------------
(***************************************************************************)
(* A model of the statistical core of Throwlytics (src/app/page.tsx):      *)
(* percentileOf, nosePercentileFromAvg, computeHistogram, bandForMetric,   *)
(* buildIssues and the session statistics of Page.                         *)
(*                                                                         *)
(* Numbers.  A JavaScript number is modelled as an exact rational          *)
(* [num, den] in lowest terms with den > 0, and `undefined` as the record  *)
(* with den = 0.  Arithmetic is exact: IEEE-754 rounding is not modelled.  *)
(***************************************************************************)
EXTENDS Integers, Sequences, FiniteSets, TLC

(***************************************************************************)
(* Bounds of the model.                                                    *)
(***************************************************************************)
\* Largest population entry of the percentile specification.
MaxVal == 3
\* Longest sorted population of the percentile specification: 8 entries
\* give percentages that end in .5, which Math.round takes up.
MaxLen == 8
\* Longest unsorted array (a nose population, the values of a histogram).
MaxPop == 3

\* Most bins of a histogram.
MaxBins == 3
\* Most rows of a parsed file.
MaxRows == 2
\* Most user actions (file selections and Clear clicks) of one visit.
MaxClicks == 3
\* Most operations run on one generated population.
MaxOps == 2
\* Most throwers of a generated population.
MaxSamples == 2
\* Most generateSyntheticGlobalStats calls, and most draws made from
\* closures outside the generator.
MaxCalls == 2
MaxDraws == 1
\* Longest array handed to sd.
MaxSdLen == 3

VARIABLES
    \* the call frame of percentileOf (lines 355-367)
    value, sortedAsc, higherIsBetter, lo, hi, pc, result,
    \* the call frame of nosePercentileFromAvg (lines 424-429)
    avgNose, gNose, distArr, userDist, nosePc, noseRet,
    \* the call frame of computeHistogram (lines 373-384); vi is the
    \* position of the for-of loop in values
    values, bins, min, max, counts, vi, histPc,
    \* the call frame of bandForMetric (lines 191-217)
    metric, bandValue, bandRet, bandPc,
    \* the session averages handed to buildIssues and the list it returns
    \* (lines 223-302; in Page the memo cells of lines 727-748)
    stats, issues, diagPc,
    \* Page: the rows state (line 693), the synthetic population (line 697)
    \* and the memo cells throws, cleanThrows and percentiles (lines
    \* 708-766); sessPc is the position of one render in them
    rows, globalStats, throws, cleanThrows, percentiles, sessPc,
    \* Page: the error state (line 694), the Papa.parse calls whose complete
    \* callback has not run yet (lines 770-779), the number of user actions
    \* so far, and the user action whose setRows call wrote rows
    error, parsing, clicks, rowsFrom,
    \* the array objects alive after generation (heap[a] is the content of
    \* the array at address a), the GlobalStats object as the addresses of
    \* its eight arrays (line 352), the number of operations run on it and
    \* the last of them with what it returned
    heap, gAddr, heapOps, lastCall,
    \* the seed cells of the mulberry32 closures made so far (line 308), the
    \* closures that code outside the generator holds, the number of draws
    \* made from them and the last value drawn, and one record per
    \* generateSyntheticGlobalStats call that has returned; genFrame holds
    \* the locals of the call in progress (lines 325-345) and genPc its
    \* position
    rngCells, rngs, draws, lastDraw, generated, genFrame, genPc,
    \* the call frame of sd on binary64 numbers (lines 152-157)
    sdArr, sdRet, sdPc

pctVars == <<value, sortedAsc, higherIsBetter, lo, hi, pc, result>>

noseVars == <<avgNose, gNose, distArr, userDist, nosePc, noseRet>>

histVars == <<values, bins, min, max, counts, vi, histPc>>

bandVars == <<metric, bandValue, bandRet, bandPc>>

diagVars == <<stats, issues, diagPc>>

sessVars == <<rows, globalStats, throws, cleanThrows, percentiles, sessPc>>

pageVars == <<error, parsing, clicks, rowsFrom>>

heapVars == <<heap, gAddr, heapOps, lastCall>>

genVars ==
    <<rngCells, rngs, draws, lastDraw, generated, genFrame, genPc>>

sdVars == <<sdArr, sdRet, sdPc>>

vars ==
    <<pctVars, noseVars, histVars, bandVars, diagVars, sessVars,
      pageVars, heapVars, genVars, sdVars>>

(***************************************************************************)
(* Numbers                                                                 *)
(***************************************************************************)
Undefined == [num |-> 0, den |-> 0]

IsDefined(x) == x.den # 0

AbsInt(n) == IF n < 0 THEN -n ELSE n

RECURSIVE GCD(_, _)
GCD(a, b) == IF b = 0 THEN a ELSE GCD(b, a % b)

\* The number n/d (d # 0), in lowest terms with a positive denominator.
Rat(n, d) ==
    LET g == GCD(AbsInt(n), AbsInt(d))
        s == IF d < 0 THEN -1 ELSE 1
    IN  [num |-> (s * n) \div g, den |-> (s * d) \div g]

Num(n) == [num |-> n, den |-> 1]

Lt(a, b) == a.num * b.den < b.num * a.den
Le(a, b) == a.num * b.den <= b.num * a.den
Gt(a, b) == Lt(b, a)
Ge(a, b) == Le(b, a)

Add(a, b) == Rat(a.num * b.den + b.num * a.den, a.den * b.den)
Sub(a, b) == Rat(a.num * b.den - b.num * a.den, a.den * b.den)
Mul(a, b) == Rat(a.num * b.num, a.den * b.den)
\* a / b for b # 0
Div(a, b) == Rat(a.num * b.den, a.den * b.num)

\* Math.abs
MathAbs(a) == [num |-> AbsInt(a.num), den |-> a.den]
\* Math.floor, as an integer
MathFloor(a) == a.num \div a.den
\* Math.round: the nearest integer, a tie going up
MathRound(a) == (2 * a.num + a.den) \div (2 * a.den)
\* Math.max, Math.min on integers
MaxInt(a, b) == IF a >= b THEN a ELSE b
MinInt(a, b) == IF a <= b THEN a ELSE b

(***************************************************************************)
(* percentileOf (lines 355-367)                                            *)
(***************************************************************************)
\* Line 361 with < for <=: ties counted as exceeding.
LoopBodyLt(s, v, l, h) ==
    LET mid == (l + h) \div 2
    IN  IF Lt(s[mid + 1], v) THEN <<mid + 1, h>> ELSE <<l, mid>>

\* The comparison of line 361 turned around.
LoopBodyGe(s, v, l, h) ==
    LET mid == (l + h) \div 2
    IN  IF Ge(s[mid + 1], v) THEN <<mid + 1, h>> ELSE <<l, mid>>

\* One pass of the loop body at lines 360-362; arrays are 1-based here, so
\* sortedAsc[mid] of the source is s[mid + 1].
LoopBody(s, v, l, h) ==
    LET mid == (l + h) \div 2
    IN  IF Le(s[mid + 1], v) THEN <<mid + 1, h>> ELSE <<l, mid>>

\* The while loop of lines 359-363, run to its end: the final lo.
RECURSIVE BinarySearch(_, _, _, _)
BinarySearch(s, v, l, h) ==
    IF l < h
    THEN LET n == LoopBody(s, v, l, h) IN BinarySearch(s, v, n[1], n[2])
    ELSE l

\* Line 365 with the branches of the conditional exchanged.
PercentileFromLoSwapped(l, n, hib) ==
    LET frac == Rat(l, n)
        p    == IF hib THEN Sub(Num(1), frac) ELSE frac
    IN  Num(MathRound(Mul(p, Num(100))))

\* Line 366 without Math.round.
PercentileFromLoNoRound(l, n, hib) ==
    LET frac == Rat(l, n)
        p    == IF hib THEN frac ELSE Sub(Num(1), frac)
    IN  Mul(p, Num(100))

\* Lines 364-366: frac, p and the rounded percentile.
PercentileFromLo(l, n, hib) ==
    LET frac == Rat(l, n)
        p    == IF hib THEN frac ELSE Sub(Num(1), frac)
    IN  Num(MathRound(Mul(p, Num(100))))

percentileOf(v, s, hib) ==
    IF Len(s) = 0 THEN Undefined
    ELSE PercentileFromLo(BinarySearch(s, v, 0, Len(s)), Len(s), hib)

(***************************************************************************)
(* Array.prototype.sort with the comparator (a, b) => a - b (lines 347-350 *)
(* and 426): the ascending rearrangement of the array.                     *)
(***************************************************************************)
RECURSIVE Insert(_, _)
Insert(x, s) ==
    IF s = <<>> THEN <<x>>
    ELSE IF Le(x, Head(s)) THEN <<x>> \o s
    ELSE <<Head(s)>> \o Insert(x, Tail(s))

RECURSIVE SortAsc(_)
SortAsc(s) == IF s = <<>> THEN <<>> ELSE Insert(Head(s), SortAsc(Tail(s)))

(***************************************************************************)
(* nosePercentileFromAvg (lines 424-429)                                   *)
(***************************************************************************)
\* Line 425.
target == 2

\* Line 426 without the .sort(): the distances in population order.
NoseDistArrUnsorted(nose) ==
    [i \in 1..Len(nose) |-> MathAbs(Sub(nose[i], Num(target)))]

\* Line 426: the distances of the population from the target, ascending.
NoseDistArr(nose) ==
    SortAsc([i \in 1..Len(nose) |-> MathAbs(Sub(nose[i], Num(target)))])

\* Line 427.
NoseUserDist(avg) == MathAbs(Sub(avg, Num(target)))

nosePercentileFromAvg(avg, nose) ==
    percentileOf(NoseUserDist(avg), NoseDistArr(nose), FALSE)

(***************************************************************************)
(* computeHistogram (lines 373-384)                                        *)
(***************************************************************************)
\* Line 374: new Array(bins).fill(0); counts[k + 1] is the source's counts[k].
ZeroCounts(n) == [k \in 1..n |-> 0]

\* Lines 379-380: the 0-based bin of v.
BinIndex(v, n, mn, mx) ==
    LET span == Sub(mx, mn)
        t    == Div(Sub(v, mn), span)
    IN  MinInt(n - 1, MaxInt(0, MathFloor(Mul(t, Num(n)))))

\* Lines 379-381 without the clamp of line 380: a value whose bin is outside
\* 0..bins-1 increments no element of the array.
CountValueNoClamp(c, v, n, mn, mx) ==
    LET span == Sub(mx, mn)
        t    == Div(Sub(v, mn), span)
        idx  == MathFloor(Mul(t, Num(n)))
    IN  IF idx \in 0..(n - 1) THEN [c EXCEPT ![idx + 1] = @ + 1] ELSE c

\* Lines 379-381: counts after counting v.
CountValue(c, v, n, mn, mx) ==
    [c EXCEPT ![BinIndex(v, n, mn, mx) + 1] = @ + 1]

(***************************************************************************)
(* bandForMetric (lines 191-217)                                           *)
(***************************************************************************)
\* Line 10.
Metrics == {"wobble", "nose", "spin", "power"}

BandResult(b, n, s) == [band |-> b, note |-> n, score01 |-> s]

\* Lines 200-206 with the near-neutral test of line 204 moved to the front.
NoseBandNeutralFirst(v) ==
    IF Le(MathAbs(v), Num(1))
    THEN BandResult("Intermediate", "Near neutral", Rat(6, 10))
    ELSE IF Ge(v, Num(1)) /\ Le(v, Num(3))
    THEN BandResult("Advanced", "Driver-friendly nose", Rat(9, 10))
    ELSE IF Gt(v, Num(3)) /\ Le(v, Num(5))
    THEN BandResult("Intermediate", "Slightly nose-up", Rat(55, 100))
    ELSE IF Gt(v, Num(5))
    THEN BandResult("Beginner", "Nose-up (distance leak)", Rat(2, 10))
    ELSE BandResult("Intermediate", "Slightly nose-down/neutral", Rat(65, 100))

\* Lines 200-206.
NoseBand(v) ==
    IF Ge(v, Num(1)) /\ Le(v, Num(3))
    THEN BandResult("Advanced", "Driver-friendly nose", Rat(9, 10))
    ELSE IF Gt(v, Num(3)) /\ Le(v, Num(5))
    THEN BandResult("Intermediate", "Slightly nose-up", Rat(55, 100))
    ELSE IF Gt(v, Num(5))
    THEN BandResult("Beginner", "Nose-up (distance leak)", Rat(2, 10))
    ELSE IF Le(MathAbs(v), Num(1))
    THEN BandResult("Intermediate", "Near neutral", Rat(6, 10))
    ELSE BandResult("Intermediate", "Slightly nose-down/neutral", Rat(65, 100))

\* Lines 194-198 with the Advanced threshold of line 195 at 4, the severe
\* threshold of the diagnosis (line 235).
WobbleBandLoose(v) ==
    IF Lt(v, Num(4))
    THEN BandResult("Advanced", "Very clean release", Rat(9, 10))
    ELSE IF Lt(v, Rat(45, 10))
    THEN BandResult("Intermediate", "Some OAT; manageable", Rat(6, 10))
    ELSE BandResult("Beginner", "High OAT/wobble", Rat(25, 100))

\* Lines 194-198.
WobbleBand(v) ==
    IF Lt(v, Num(3))
    THEN BandResult("Advanced", "Very clean release", Rat(9, 10))
    ELSE IF Lt(v, Rat(45, 10))
    THEN BandResult("Intermediate", "Some OAT; manageable", Rat(6, 10))
    ELSE BandResult("Beginner", "High OAT/wobble", Rat(25, 100))

\* Lines 208-212 with > for >= at both thresholds.
SpinBandStrict(v) ==
    IF Gt(v, Num(1100))
    THEN BandResult("Advanced", "Elite spin", Rat(9, 10))
    ELSE IF Gt(v, Num(950))
    THEN BandResult("Intermediate", "Solid spin", Rat(65, 100))
    ELSE BandResult("Beginner", "Low spin (timing/clamp)", Rat(3, 10))

\* Lines 208-212.
SpinBand(v) ==
    IF Ge(v, Num(1100))
    THEN BandResult("Advanced", "Elite spin", Rat(9, 10))
    ELSE IF Ge(v, Num(950))
    THEN BandResult("Intermediate", "Solid spin", Rat(65, 100))
    ELSE BandResult("Beginner", "Low spin (timing/clamp)", Rat(3, 10))

\* Lines 214-216.
PowerBand(v) ==
    IF Ge(v, Num(60))
    THEN BandResult("Advanced", "Elite speed", Rat(9, 10))
    ELSE IF Ge(v, Num(52))
    THEN BandResult("Intermediate", "Strong speed", Rat(65, 100))
    ELSE BandResult("Beginner", "Developing speed", Rat(35, 100))

bandForMetric(m, v) ==
    IF v = Undefined THEN BandResult("Beginner", "No data", Num(0))
    ELSE IF m = "wobble" THEN WobbleBand(v)
    ELSE IF m = "nose" THEN NoseBand(v)
    ELSE IF m = "spin" THEN SpinBand(v)
    ELSE PowerBand(v)

(***************************************************************************)
(* buildIssues (lines 223-302).  An issue keeps its metric, priority,      *)
(* value, unitText, goalText and headline; the detail text, which only     *)
(* formats the value, is left out.                                         *)
(***************************************************************************)
\* x ?? 0
OrZero(x) == IF x = Undefined THEN Num(0) ELSE x

Issue(m, p, v, u, g, h) ==
    [metric |-> m, priority |-> p, value |-> v, unitText |-> u,
     goalText |-> g, headline |-> h]

\* Lines 235-246.
WobbleSevere(w) ==
    Issue("wobble", 100, w, "deg", "< 3.0 deg",
          "Wobble is costing you clean flight")

\* Lines 247-257.
WobbleMild(w) ==
    Issue("wobble", 60, w, "deg", "< 3.0 deg", "Some wobble present")

\* Lines 259-271.
NoseIssue(n) ==
    Issue("nose", 90, n, "deg", "~ +1 deg to +3 deg",
          "Nose angle is too high (nose-up)")

\* Lines 273-285.
SpinIssue(s) ==
    Issue("spin", 70, s, "rpm", ">= 950 rpm", "Spin is on the low side")

\* Lines 287-299.
SpeedIssue(s) ==
    Issue("power", 40, s, "mph", ">= 52 mph",
          "Speed (power) has room to grow")

\* Lines 235-299 with `else if` at line 247 written as a plain `if`.
IssuesPushedNoElse(st) ==
    LET wobble == st.avgWobble
        nose   == st.avgNose
        spin   == st.avgSpin
        speed  == st.avgSpeed
    IN  (IF Gt(OrZero(wobble), Num(4)) THEN <<WobbleSevere(wobble)>> ELSE <<>>)
        \o (IF Gt(OrZero(wobble), Num(3)) THEN <<WobbleMild(wobble)>> ELSE <<>>)
        \o (IF Gt(OrZero(nose), Num(4)) THEN <<NoseIssue(nose)>> ELSE <<>>)
        \o (IF Gt(OrZero(spin), Num(0)) /\ Lt(OrZero(spin), Num(900))
            THEN <<SpinIssue(spin)>> ELSE <<>>)
        \o (IF Gt(OrZero(speed), Num(0)) /\ Lt(OrZero(speed), Num(50))
            THEN <<SpeedIssue(speed)>> ELSE <<>>)

\* Lines 235-299 without the `> 0` tests of lines 273 and 287.
IssuesPushedNoPositive(st) ==
    LET wobble == st.avgWobble
        nose   == st.avgNose
        spin   == st.avgSpin
        speed  == st.avgSpeed
    IN  (IF Gt(OrZero(wobble), Num(4)) THEN <<WobbleSevere(wobble)>>
         ELSE IF Gt(OrZero(wobble), Num(3)) THEN <<WobbleMild(wobble)>>
         ELSE <<>>)
        \o (IF Gt(OrZero(nose), Num(4)) THEN <<NoseIssue(nose)>> ELSE <<>>)
        \o (IF Lt(OrZero(spin), Num(900)) THEN <<SpinIssue(spin)>> ELSE <<>>)
        \o (IF Lt(OrZero(speed), Num(50)) THEN <<SpeedIssue(speed)>> ELSE <<>>)

\* Lines 229-299: the issues in the order they are pushed.
IssuesPushed(st) ==
    LET wobble == st.avgWobble
        nose   == st.avgNose
        spin   == st.avgSpin
        speed  == st.avgSpeed
    IN  (IF Gt(OrZero(wobble), Num(4)) THEN <<WobbleSevere(wobble)>>
         ELSE IF Gt(OrZero(wobble), Num(3)) THEN <<WobbleMild(wobble)>>
         ELSE <<>>)
        \o (IF Gt(OrZero(nose), Num(4)) THEN <<NoseIssue(nose)>> ELSE <<>>)
        \o (IF Gt(OrZero(spin), Num(0)) /\ Lt(OrZero(spin), Num(900))
            THEN <<SpinIssue(spin)>> ELSE <<>>)
        \o (IF Gt(OrZero(speed), Num(0)) /\ Lt(OrZero(speed), Num(50))
            THEN <<SpeedIssue(speed)>> ELSE <<>>)

\* Line 301: Array.prototype.sort is stable, so issues of equal priority
\* keep their order; the comparator b.priority - a.priority puts the higher
\* priority first.
RECURSIVE InsertIssue(_, _)
InsertIssue(x, s) ==
    IF s = <<>> THEN <<x>>
    ELSE IF x.priority - Head(s).priority > 0 THEN <<x>> \o s
    ELSE <<Head(s)>> \o InsertIssue(x, Tail(s))

RECURSIVE SortByPriority(_)
SortByPriority(s) ==
    IF s = <<>> THEN <<>>
    ELSE InsertIssue(s[Len(s)], SortByPriority(SubSeq(s, 1, Len(s) - 1)))

\* Line 301 returning the issues as pushed.
buildIssuesUnsorted(st) == IssuesPushed(st)

buildIssues(st) == SortByPriority(IssuesPushed(st))

(***************************************************************************)
(* Session statistics (lines 142-157 and 708-766)                          *)
(***************************************************************************)
\* A cell of a parsed row: a missing field, or a string that is blank,
\* not a number ("abc", "Infinity"), or the decimal text of the number val.
CellMissing == [kind |-> "undefined", val |-> Undefined]

CellBlank == [kind |-> "blank", val |-> Undefined]

CellText == [kind |-> "text", val |-> Undefined]

CellNumber(n) == [kind |-> "numeric", val |-> n]

\* Lines 142-148.
toNum(v) ==
    IF v.kind = "undefined" THEN Undefined
    ELSE IF v.kind = "blank" THEN Undefined
    ELSE IF v.kind = "numeric" THEN v.val
    ELSE Undefined

\* mean and sd in exact arithmetic.  They return what the source returns
\* whenever every sum, difference, product and quotient on the way is a
\* binary64 number, as for the cells of SpecSession; mean64 and sd64
\* further down round as the source does.
\* arr.reduce((a, b) => a + b, 0)
RECURSIVE SumNums(_)
SumNums(arr) ==
    IF arr = <<>> THEN Num(0) ELSE Add(Head(arr), SumNums(Tail(arr)))

\* Line 150.
mean(arr) ==
    IF Len(arr) # 0 THEN Div(SumNums(arr), Num(Len(arr))) ELSE Undefined

\* Math.sqrt, kept exact: the non-negative root of a.
MathSqrt(a) == [sqrtOf |-> a]

\* Line 155: the sum of the squared deviations from m.
RECURSIVE SumSquares(_, _)
SumSquares(arr, m) ==
    IF arr = <<>> THEN Num(0)
    ELSE Add(Mul(Sub(Head(arr), m), Sub(Head(arr), m)),
             SumSquares(Tail(arr), m))

\* Lines 152-157.
sd(arr) ==
    IF Len(arr) < 2 THEN Undefined
    ELSE LET m == mean(arr)
             v == Div(SumSquares(arr, m), Num(Len(arr) - 1))
         IN  MathSqrt(v)

\* Math.max(...arr) of a non-empty array.
RECURSIVE MathMax(_)
MathMax(arr) ==
    IF Len(arr) = 1 THEN arr[1]
    ELSE LET r == MathMax(Tail(arr))
         IN  IF Ge(arr[1], r) THEN arr[1] ELSE r

\* Lines 708-723; the fields that no statistic reads (time, launch, hyzer,
\* the throw types) are left out.
MakeThrows(rs) ==
    [i \in 1..Len(rs) |->
        [idx    |-> i,
         speed  |-> toNum(rs[i].speedMph),
         spin   |-> toNum(rs[i].spinRpm),
         nose   |-> toNum(rs[i].noseAngle),
         wobble |-> toNum(rs[i].wobbleAngle)]]

\* Line 725 accepting a throw that carries any of the four metrics.
IsUsableThrowAny(th) ==
    \/ th.speed # Undefined
    \/ th.spin # Undefined
    \/ th.nose # Undefined
    \/ th.wobble # Undefined

IsUsableThrow(th) == th.speed # Undefined \/ th.spin # Undefined

\* Line 725.
MakeCleanThrows(ths) == SelectSeq(ths, IsUsableThrow)

\* cleanThrows.map(...).filter(typeof v === "number"), lines 728-731.
NumbersOf(s) == SelectSeq(s, IsDefined)

\* Lines 727-746.
MakeStats(ct) ==
    LET speeds  == NumbersOf([i \in 1..Len(ct) |-> ct[i].speed])
        spins   == NumbersOf([i \in 1..Len(ct) |-> ct[i].spin])
        noses   == NumbersOf([i \in 1..Len(ct) |-> ct[i].nose])
        wobbles == NumbersOf([i \in 1..Len(ct) |-> ct[i].wobble])
    IN  [count     |-> Len(ct),
         avgSpeed  |-> mean(speeds),
         avgSpin   |-> mean(spins),
         avgNose   |-> mean(noses),
         avgWobble |-> mean(wobbles),
         sdSpeed   |-> sd(speeds),
         sdSpin    |-> sd(spins),
         sdNose    |-> sd(noses),
         sdWobble  |-> sd(wobbles),
         bestSpeed |-> IF Len(speeds) # 0 THEN MathMax(speeds) ELSE Undefined,
         bestSpin  |-> IF Len(spins) # 0 THEN MathMax(spins) ELSE Undefined]

\* Lines 347-352 with the copies left in generation order.
MakeGlobalStatsNoSort(speed, spin, nose, wobble) ==
    [speed |-> speed, spin |-> spin, nose |-> nose, wobble |-> wobble,
     speedSorted  |-> speed,
     spinSorted   |-> spin,
     noseSorted   |-> nose,
     wobbleSorted |-> wobble]

\* Lines 347-352: the population arrays with their ascending copies.
MakeGlobalStats(speed, spin, nose, wobble) ==
    [speed |-> speed, spin |-> spin, nose |-> nose, wobble |-> wobble,
     speedSorted  |-> SortAsc(speed),
     spinSorted   |-> SortAsc(spin),
     noseSorted   |-> SortAsc(nose),
     wobbleSorted |-> SortAsc(wobble)]

\* Lines 759-766: `out` after the four conditional assignments, a function
\* on the metrics that were assigned.
MakePercentiles(st, g) ==
    LET assigned ==
            {m \in Metrics :
                \/ m = "power" /\ st.avgSpeed # Undefined
                \/ m = "spin" /\ st.avgSpin # Undefined
                \/ m = "wobble" /\ st.avgWobble # Undefined
                \/ m = "nose" /\ st.avgNose # Undefined}
    IN  [m \in assigned |->
            IF m = "power" THEN percentileOf(st.avgSpeed, g.speedSorted, TRUE)
            ELSE IF m = "spin"
            THEN percentileOf(st.avgSpin, g.spinSorted, TRUE)
            ELSE IF m = "wobble"
            THEN percentileOf(st.avgWobble, g.wobbleSorted, FALSE)
            ELSE nosePercentileFromAvg(st.avgNose, g.nose)]

\* percentiles[m] as the page reads it (lines 839, 909, 954).
PercentileEntry(ps, m) == IF m \in DOMAIN ps THEN ps[m] ELSE Undefined

(***************************************************************************)
(* Frames at rest: a specification leaves the frames it does not run here. *)
(***************************************************************************)
SessIdle ==
    /\ rows = <<>>
    /\ globalStats = Undefined
    /\ throws = <<>>
    /\ cleanThrows = <<>>
    /\ percentiles = <<>>
    /\ sessPc = "idle"

BandIdle ==
    /\ metric = "wobble"
    /\ bandValue = Undefined
    /\ bandRet = Undefined
    /\ bandPc = "idle"

DiagIdle ==
    /\ stats = Undefined
    /\ issues = <<>>
    /\ diagPc = "idle"

\* The null of the error state (line 694).
Null == [null |-> TRUE]

PageIdle ==
    /\ error = Null
    /\ parsing = {}
    /\ clicks = 0
    /\ rowsFrom = 0

HeapIdle ==
    /\ heap = <<>>
    /\ gAddr = Undefined
    /\ heapOps = 0
    /\ lastCall = Undefined

GenIdle ==
    /\ rngCells = <<>>
    /\ rngs = {}
    /\ draws = 0
    /\ lastDraw = <<>>
    /\ generated = <<>>
    /\ genFrame = Undefined
    /\ genPc = "idle"

SdIdle ==
    /\ sdArr = <<>>
    /\ sdRet = Undefined
    /\ sdPc = "idle"

PctIdle ==
    /\ value = Undefined
    /\ sortedAsc = <<>>
    /\ higherIsBetter = FALSE
    /\ lo = 0
    /\ hi = 0
    /\ pc = "idle"
    /\ result = Undefined

NoseIdle ==
    /\ avgNose = Undefined
    /\ gNose = <<>>
    /\ distArr = <<>>
    /\ userDist = Undefined
    /\ nosePc = "idle"
    /\ noseRet = Undefined

HistIdle ==
    /\ values = <<>>
    /\ bins = 0
    /\ min = Undefined
    /\ max = Undefined
    /\ counts = <<>>
    /\ vi = 0
    /\ histPc = "idle"

(***************************************************************************)
(* Specification SpecPct: one call of percentileOf, statement by statement *)
(***************************************************************************)
PopVals == {Num(k) : k \in 1..MaxVal}

\* Observed values: below, between, at and above the population entries.
ObsVals == {Rat(k, 2) : k \in 1..(2 * MaxVal + 1)}

IsSortedAsc(s) == \A i \in 1..(Len(s) - 1) : Le(s[i], s[i + 1])

\* The ascending arrays of n population entries.
RECURSIVE SortedArraysOfLen(_)
SortedArraysOfLen(n) ==
    IF n = 0 THEN {<<>>}
    ELSE UNION {{Append(s, v) :
                    v \in {w \in PopVals : s = <<>> \/ Le(s[Len(s)], w)}} :
                s \in SortedArraysOfLen(n - 1)}

SortedArrays == UNION {SortedArraysOfLen(n) : n \in 0..MaxLen}

InitPct ==
    /\ value \in ObsVals
    /\ sortedAsc \in SortedArrays
    /\ higherIsBetter \in BOOLEAN
    /\ lo = 0
    /\ hi = 0
    /\ pc = "entry"
    /\ result = Undefined
    /\ NoseIdle
    /\ HistIdle
    /\ BandIdle
    /\ DiagIdle
    /\ SessIdle
    /\ PageIdle
    /\ HeapIdle
    /\ GenIdle
    /\ SdIdle

\* Line 356: the empty population returns undefined.
PctReturnEmpty ==
    /\ pc = "entry"
    /\ Len(sortedAsc) = 0
    /\ result' = Undefined
    /\ pc' = "done"
    /\ UNCHANGED <<value, sortedAsc, higherIsBetter, lo, hi>>
    /\ UNCHANGED <<noseVars, histVars, bandVars,
                   diagVars,
                   sessVars,
                   pageVars,
                   heapVars, genVars, sdVars>>

\* Lines 357-358.
PctEnter ==
    /\ pc = "entry"
    /\ Len(sortedAsc) # 0
    /\ lo' = 0
    /\ hi' = Len(sortedAsc)
    /\ pc' = "loop"
    /\ UNCHANGED <<value, sortedAsc, higherIsBetter, result>>
    /\ UNCHANGED <<noseVars, histVars, bandVars,
                   diagVars,
                   sessVars,
                   pageVars,
                   heapVars, genVars, sdVars>>

\* Lines 359-363: one iteration.
PctLoop ==
    /\ pc = "loop"
    /\ lo < hi
    /\ LET n == LoopBody(sortedAsc, value, lo, hi)
       IN  lo' = n[1] /\ hi' = n[2]
    /\ UNCHANGED <<value, sortedAsc, higherIsBetter, pc, result>>
    /\ UNCHANGED <<noseVars, histVars, bandVars,
                   diagVars,
                   sessVars,
                   pageVars,
                   heapVars, genVars, sdVars>>

\* Lines 364-366: the loop has ended.
PctReturn ==
    /\ pc = "loop"
    /\ ~(lo < hi)
    /\ result' = PercentileFromLo(lo, Len(sortedAsc), higherIsBetter)
    /\ pc' = "done"
    /\ UNCHANGED <<value, sortedAsc, higherIsBetter, lo, hi>>
    /\ UNCHANGED <<noseVars, histVars, bandVars,
                   diagVars,
                   sessVars,
                   pageVars,
                   heapVars, genVars, sdVars>>

NextPct == PctReturnEmpty \/ PctEnter \/ PctLoop \/ PctReturn

SpecPct == InitPct /\ [][NextPct]_vars

(***************************************************************************)
(* Specification SpecNose: one call of nosePercentileFromAvg               *)
(***************************************************************************)
Arrays == UNION {[1..n -> PopVals] : n \in 0..MaxPop}

InitNose ==
    /\ avgNose \in ObsVals
    /\ gNose \in Arrays
    /\ distArr = <<>>
    /\ userDist = Undefined
    /\ nosePc = "entry"
    /\ noseRet = Undefined
    /\ PctIdle
    /\ HistIdle
    /\ BandIdle
    /\ DiagIdle
    /\ SessIdle
    /\ PageIdle
    /\ HeapIdle
    /\ GenIdle
    /\ SdIdle

\* Lines 426-427.
NoseDistances ==
    /\ nosePc = "entry"
    /\ distArr' = NoseDistArr(gNose)
    /\ userDist' = NoseUserDist(avgNose)
    /\ nosePc' = "call"
    /\ UNCHANGED <<avgNose, gNose, noseRet>>
    /\ UNCHANGED <<pctVars, histVars, bandVars, diagVars,
                   sessVars,
                   pageVars,
                   heapVars, genVars, sdVars>>

\* Line 428.
NoseReturn ==
    /\ nosePc = "call"
    /\ noseRet' = percentileOf(userDist, distArr, FALSE)
    /\ nosePc' = "done"
    /\ UNCHANGED <<avgNose, gNose, distArr, userDist>>
    /\ UNCHANGED <<pctVars, histVars, bandVars, diagVars,
                   sessVars,
                   pageVars,
                   heapVars, genVars, sdVars>>

NextNose == NoseDistances \/ NoseReturn

SpecNose == InitNose /\ [][NextNose]_vars

(***************************************************************************)
(* Specification SpecHist: one call of computeHistogram                    *)
(***************************************************************************)
\* Values below, inside and above the ranges of HistRanges.
HistVals == {Num(k) : k \in 0..(MaxVal + 1)}

HistArrays == UNION {[1..n -> HistVals] : n \in 0..MaxPop}

\* <<min, max>>: proper ranges, an empty one and an inverted one.
HistRanges ==
    {<<Num(1), Num(2)>>, <<Num(1), Num(3)>>, <<Num(2), Num(2)>>,
     <<Num(3), Num(1)>>}

InitHist ==
    /\ values \in HistArrays
    /\ bins \in 1..MaxBins
    /\ \E r \in HistRanges : min = r[1] /\ max = r[2]
    /\ counts = <<>>
    /\ vi = 0
    /\ histPc = "entry"
    /\ PctIdle
    /\ NoseIdle
    /\ BandIdle
    /\ DiagIdle
    /\ SessIdle
    /\ PageIdle
    /\ HeapIdle
    /\ GenIdle
    /\ SdIdle

\* Lines 374-376 with span <= 0: the zero counts are returned.
HistDegenerate ==
    /\ histPc = "entry"
    /\ Le(Sub(max, min), Num(0))
    /\ counts' = ZeroCounts(bins)
    /\ histPc' = "done"
    /\ UNCHANGED <<values, bins, min, max, vi>>
    /\ UNCHANGED <<pctVars, noseVars, bandVars, diagVars,
                   sessVars,
                   pageVars,
                   heapVars, genVars, sdVars>>

\* Lines 374-376 with span > 0.
HistEnter ==
    /\ histPc = "entry"
    /\ ~Le(Sub(max, min), Num(0))
    /\ counts' = ZeroCounts(bins)
    /\ vi' = 0
    /\ histPc' = "loop"
    /\ UNCHANGED <<values, bins, min, max>>
    /\ UNCHANGED <<pctVars, noseVars, bandVars, diagVars,
                   sessVars,
                   pageVars,
                   heapVars, genVars, sdVars>>

\* Lines 378-382: one iteration.
HistLoop ==
    /\ histPc = "loop"
    /\ vi < Len(values)
    /\ counts' = CountValue(counts, values[vi + 1], bins, min, max)
    /\ vi' = vi + 1
    /\ UNCHANGED <<values, bins, min, max, histPc>>
    /\ UNCHANGED <<pctVars, noseVars, bandVars, diagVars,
                   sessVars,
                   pageVars,
                   heapVars, genVars, sdVars>>

\* Line 383.
HistReturn ==
    /\ histPc = "loop"
    /\ vi = Len(values)
    /\ histPc' = "done"
    /\ UNCHANGED <<values, bins, min, max, counts, vi>>
    /\ UNCHANGED <<pctVars, noseVars, bandVars, diagVars,
                   sessVars,
                   pageVars,
                   heapVars, genVars, sdVars>>

NextHist == HistDegenerate \/ HistEnter \/ HistLoop \/ HistReturn

SpecHist == InitHist /\ [][NextHist]_vars

(***************************************************************************)
(* Specification SpecBand: one call of bandForMetric                       *)
(***************************************************************************)
\* Angles in quarter degrees from -3 to 7: every threshold of the nose and
\* wobble tables, with values on each side of it.
AngleVals == {Rat(k, 4) : k \in (-12)..28}

SpinVals ==
    {Num(k) : k \in {-5, 0, 500, 899, 900, 949, 950, 1000, 1099, 1100, 1200}}

SpeedVals == {Num(k) : k \in {-1, 0, 45, 49, 50, 51, 52, 55, 59, 60, 65}}

BandInputs(m) ==
    {Undefined} \cup
        (IF m = "nose" THEN AngleVals
         ELSE IF m = "wobble" THEN {v \in AngleVals : Ge(v, Num(0))}
         ELSE IF m = "spin" THEN SpinVals
         ELSE SpeedVals)

InitBand ==
    /\ metric \in Metrics
    /\ bandValue \in BandInputs(metric)
    /\ bandRet = Undefined
    /\ bandPc = "entry"
    /\ PctIdle
    /\ NoseIdle
    /\ HistIdle
    /\ DiagIdle
    /\ SessIdle
    /\ PageIdle
    /\ HeapIdle
    /\ GenIdle
    /\ SdIdle

BandCall ==
    /\ bandPc = "entry"
    /\ bandRet' = bandForMetric(metric, bandValue)
    /\ bandPc' = "done"
    /\ UNCHANGED <<metric, bandValue>>
    /\ UNCHANGED <<pctVars, noseVars, histVars, diagVars,
                   sessVars,
                   pageVars,
                   heapVars, genVars, sdVars>>

NextBand == BandCall

SpecBand == InitBand /\ [][NextBand]_vars

(***************************************************************************)
(* Specification SpecDiag: one call of buildIssues                         *)
(***************************************************************************)
WobbleAvgs == {Undefined} \cup {Rat(k, 10) : k \in {20, 30, 35, 40, 42, 50}}

NoseAvgs == {Undefined} \cup {Rat(k, 10) : k \in {-10, 20, 40, 45}}

SpinAvgs == {Undefined} \cup {Num(k) : k \in {-5, 0, 800, 900, 1000, 1100}}

SpeedAvgs == {Undefined} \cup {Num(k) : k \in {0, 45, 50, 55, 60}}

InitDiag ==
    /\ stats \in [avgSpeed : SpeedAvgs, avgSpin : SpinAvgs,
                  avgNose : NoseAvgs, avgWobble : WobbleAvgs]
    /\ issues = <<>>
    /\ diagPc = "entry"
    /\ PctIdle
    /\ NoseIdle
    /\ HistIdle
    /\ BandIdle
    /\ SessIdle
    /\ PageIdle
    /\ HeapIdle
    /\ GenIdle
    /\ SdIdle

\* Line 748 (and any other call): issues = buildIssues(stats).
Diagnose ==
    /\ diagPc = "entry"
    /\ issues' = buildIssues(stats)
    /\ diagPc' = "done"
    /\ UNCHANGED stats
    /\ UNCHANGED <<pctVars, noseVars, histVars, bandVars,
                   sessVars,
                   pageVars,
                   heapVars, genVars, sdVars>>

NextDiag == Diagnose

SpecDiag == InitDiag /\ [][NextDiag]_vars

(***************************************************************************)
(* Specification SpecSession: one render of Page over the rows of a file   *)
(***************************************************************************)
\* The cells a parsed file may hold for each column.
SpeedCells == {CellBlank, CellNumber(Num(45))}

SpinCells == {CellMissing, CellNumber(Num(800))}

NoseCells == {CellText, CellNumber(Num(2)), CellNumber(Num(5))}

WobbleCells == {CellBlank, CellNumber(Num(2)), CellNumber(Num(5))}

Rows ==
    [speedMph : SpeedCells, spinRpm : SpinCells, noseAngle : NoseCells,
     wobbleAngle : WobbleCells]

RowArrays == UNION {[1..n -> Rows] : n \in 0..MaxRows}

\* A population of four synthetic throwers, each metric within the clamp
\* of lines 336-339.
SamplePopulation ==
    MakeGlobalStats(
        <<Num(47), Num(40), Num(55), Num(45)>>,
        <<Num(860), Num(700), Num(1100), Num(800)>>,
        <<Num(3), Num(6), Num(1), Num(4)>>,
        <<Num(4), Num(6), Num(2), Num(5)>>)

InitSession ==
    /\ rows \in RowArrays
    /\ globalStats = SamplePopulation
    /\ throws = <<>>
    /\ cleanThrows = <<>>
    /\ stats = Undefined
    /\ issues = <<>>
    /\ diagPc = "idle"
    /\ percentiles = <<>>
    /\ sessPc = "throws"
    /\ PctIdle
    /\ NoseIdle
    /\ HistIdle
    /\ BandIdle
    /\ PageIdle
    /\ HeapIdle
    /\ GenIdle
    /\ SdIdle

\* Lines 708-723.
RenderThrows ==
    /\ sessPc = "throws"
    /\ throws' = MakeThrows(rows)
    /\ sessPc' = "cleanThrows"
    /\ UNCHANGED <<rows, globalStats, cleanThrows, percentiles>>
    /\ UNCHANGED <<pctVars, noseVars, histVars, bandVars,
                   diagVars,
                   pageVars,
                   heapVars, genVars, sdVars>>

\* Line 725.
RenderCleanThrows ==
    /\ sessPc = "cleanThrows"
    /\ cleanThrows' = MakeCleanThrows(throws)
    /\ sessPc' = "stats"
    /\ UNCHANGED <<rows, globalStats, throws, percentiles>>
    /\ UNCHANGED <<pctVars, noseVars, histVars, bandVars,
                   diagVars,
                   pageVars,
                   heapVars, genVars, sdVars>>

\* Lines 727-746.
RenderStats ==
    /\ sessPc = "stats"
    /\ stats' = MakeStats(cleanThrows)
    /\ sessPc' = "issues"
    /\ UNCHANGED <<rows, globalStats, throws, cleanThrows, percentiles>>
    /\ UNCHANGED <<issues, diagPc>>
    /\ UNCHANGED <<pctVars, noseVars, histVars, bandVars,
                   pageVars,
                   heapVars, genVars, sdVars>>

\* Line 748.
RenderIssues ==
    /\ sessPc = "issues"
    /\ issues' = buildIssues(stats)
    /\ sessPc' = "percentiles"
    /\ UNCHANGED <<rows, globalStats, throws, cleanThrows, percentiles>>
    /\ UNCHANGED <<stats, diagPc>>
    /\ UNCHANGED <<pctVars, noseVars, histVars, bandVars,
                   pageVars,
                   heapVars, genVars, sdVars>>

\* Lines 759-766.
RenderPercentiles ==
    /\ sessPc = "percentiles"
    /\ percentiles' = MakePercentiles(stats, globalStats)
    /\ sessPc' = "done"
    /\ UNCHANGED <<rows, globalStats, throws, cleanThrows>>
    /\ UNCHANGED <<pctVars, noseVars, histVars, bandVars,
                   diagVars,
                   pageVars,
                   heapVars, genVars, sdVars>>

NextSession ==
    \/ RenderThrows
    \/ RenderCleanThrows
    \/ RenderStats
    \/ RenderIssues
    \/ RenderPercentiles

SpecSession == InitSession /\ [][NextSession]_vars

(***************************************************************************)
(* Claims about percentileOf, checked under SpecPct                        *)
(***************************************************************************)
PctDone == pc = "done" /\ Len(sortedAsc) > 0

BelowAll(v, s) == \A i \in 1..Len(s) : Lt(v, s[i])

AtOrAboveMax(v, s) == \A i \in 1..Len(s) : Ge(v, s[i])

\* The number of entries of s that are <= v.
CountLe(s, v) == Cardinality({i \in 1..Len(s) : Le(s[i], v)})

IsPercent(x) == x.den = 1 /\ 0 <= x.num /\ x.num <= 100

\* C1 as stated: for a non-empty sorted population and EITHER polarity, a
\* value below every entry gets 0 and a value at or above the maximum 100.
C1_AsStated ==
    PctDone =>
        /\ BelowAll(value, sortedAsc) => result = Num(0)
        /\ AtOrAboveMax(value, sortedAsc) => result = Num(100)

\* C1 (amended): for a non-empty sorted population, a value below every
\* entry gets 0 and a value at or above the maximum gets 100 when higher is
\* better; when lower is better the two results are exchanged (100 below
\* every entry, 0 at or above the maximum).
C1_EdgePercentiles ==
    PctDone =>
        /\ BelowAll(value, sortedAsc) =>
               result = IF higherIsBetter THEN Num(0) ELSE Num(100)
        /\ AtOrAboveMax(value, sortedAsc) =>
               result = IF higherIsBetter THEN Num(100) ELSE Num(0)

C1_Witness ==
    /\ PctDone
    /\ ~higherIsBetter
    /\ BelowAll(value, sortedAsc)
    /\ result = Num(100)

\* C2: over a fixed non-empty sorted population the percentile is monotonic
\* in the observed value: non-decreasing when higher is better and
\* non-increasing when lower is better.
C2_Monotonic ==
    PctDone =>
        \A b \in ObsVals :
            LET pb == percentileOf(b, sortedAsc, higherIsBetter)
            IN  /\ (Le(value, b) /\ higherIsBetter) => Le(result, pb)
                /\ (Le(value, b) /\ ~higherIsBetter) => Ge(result, pb)
                /\ (Le(b, value) /\ higherIsBetter) => Le(pb, result)
                /\ (Le(b, value) /\ ~higherIsBetter) => Ge(pb, result)

C2_Witness ==
    /\ PctDone
    /\ \E b \in ObsVals :
          /\ Lt(value, b)
          /\ Lt(result, percentileOf(b, sortedAsc, higherIsBetter))
    /\ \E b \in ObsVals :
          /\ Lt(b, value)
          /\ Lt(percentileOf(b, sortedAsc, higherIsBetter), result)

\* C3: percentileOf returns undefined exactly when the population is empty,
\* and otherwise an integer p with 0 <= p <= 100.
C3_Range ==
    pc = "done" =>
        /\ (result = Undefined) <=> (Len(sortedAsc) = 0)
        /\ Len(sortedAsc) > 0 => IsPercent(result)

C3_Witness ==
    /\ PctDone
    /\ IsPercent(result)
    /\ result.num > 0
    /\ result.num < 100

\* C4, the result: when the call returns from a non-empty population, lo is
\* the number of entries <= value, and the result is round(100 * lo / N)
\* when higher is better, round(100 * (1 - lo / N)) when lower is better.
C4_Final ==
    PctDone =>
        LET n == Len(sortedAsc)
        IN  /\ lo = CountLe(sortedAsc, value)
            /\ result.den = 1
            /\ result.num = IF higherIsBetter
                            THEN (200 * lo + n) \div (2 * n)
                            ELSE (200 * (n - lo) + n) \div (2 * n)

\* C4, the loop: lo and hi stay within 0 <= lo <= hi <= N, and every
\* iteration strictly shrinks hi - lo, so the loop terminates.
C4_Bounds ==
    pc = "loop" => 0 <= lo /\ lo <= hi /\ hi <= Len(sortedAsc)

C4_Variant == (pc = "loop" /\ pc' = "loop") => (hi' - lo' < hi - lo)

Dist2(x) == MathAbs(Sub(x, Num(2)))

\* The population members at most as far from 2 degrees as avg is.
CountWithin(nose, avg) ==
    Cardinality({i \in 1..Len(nose) : Le(Dist2(nose[i]), Dist2(avg))})

\* C5: the nose percentile is the lower-is-better percentile of the
\* distance |avg - 2| among the population's distances |n - 2|; two averages
\* equidistant from 2 get the same percentile, and an average closer to 2
\* never gets a lower percentile than one farther from 2.
C5_NoseDistance ==
    (nosePc = "done" /\ Len(gNose) > 0) =>
        LET n == Len(gNose)
            k == CountWithin(gNose, avgNose)
        IN  /\ noseRet = Num((200 * (n - k) + n) \div (2 * n))
            /\ \A b \in ObsVals :
                   LET pb == nosePercentileFromAvg(b, gNose)
                   IN  /\ Dist2(b) = Dist2(avgNose) => pb = noseRet
                       /\ Le(Dist2(avgNose), Dist2(b)) => Ge(noseRet, pb)

\* An average below the target with an equidistant one above it, and a
\* farther one that ranks strictly lower, over an unsorted population.
C5_Witness ==
    /\ nosePc = "done"
    /\ Len(gNose) > 1
    /\ ~IsSortedAsc(NoseDistArrUnsorted(gNose))
    /\ Lt(avgNose, Num(2))
    /\ \E b \in ObsVals : Gt(b, Num(2)) /\ Dist2(b) = Dist2(avgNose)
    /\ \E b \in ObsVals :
          /\ Lt(Dist2(avgNose), Dist2(b))
          /\ Gt(noseRet, nosePercentileFromAvg(b, gNose))

(***************************************************************************)
(* Claims about computeHistogram, checked under SpecHist                   *)
(***************************************************************************)
RECURSIVE SumSeq(_)
SumSeq(s) == IF s = <<>> THEN 0 ELSE Head(s) + SumSeq(Tail(s))

\* C6: computeHistogram returns exactly `bins` counts; with max > min they
\* sum to the number of values, values below min being counted in the first
\* bin and values at or above max in the last; with max <= min every count
\* is zero.
C6_Histogram ==
    histPc = "done" =>
        /\ Len(counts) = bins
        /\ \A k \in 1..bins : counts[k] >= 0
        /\ Gt(max, min) =>
              /\ SumSeq(counts) = Len(values)
              /\ counts[1] >=
                    Cardinality({i \in 1..Len(values) : Lt(values[i], min)})
              /\ counts[bins] >=
                    Cardinality({i \in 1..Len(values) : Ge(values[i], max)})
        /\ Le(max, min) => \A k \in 1..bins : counts[k] = 0

\* A proper range with values below it, inside it and above it.
C6_Witness ==
    /\ histPc = "done"
    /\ Gt(max, min)
    /\ bins > 1
    /\ \E i \in 1..Len(values) : Lt(values[i], min)
    /\ \E i \in 1..Len(values) : Gt(values[i], max)
    /\ \E i \in 1..Len(values) : Gt(values[i], min) /\ Lt(values[i], max)
    /\ SumSeq(counts) = Len(values)


(***************************************************************************)
(* Claims about buildIssues, checked under SpecDiag                        *)
(***************************************************************************)
\* x is present and x > c;  x is present and x < c.
Above(x, c) == x # Undefined /\ Gt(x, Num(c))

Below(x, c) == x # Undefined /\ Lt(x, Num(c))

\* The priorities of the issues of metric m, as a set, and their number.
PrioritiesOf(m) ==
    {issues[i].priority :
        i \in {j \in 1..Len(issues) : issues[j].metric = m}}

CountOf(m) == Cardinality({i \in 1..Len(issues) : issues[i].metric = m})

\* The issues metric m has are exactly one issue of each priority in ps
\* (ps is empty or a singleton).
HasExactly(m, ps) == PrioritiesOf(m) = ps /\ CountOf(m) = Cardinality(ps)

Averages(w, n, s, p) ==
    [avgWobble |-> w, avgNose |-> n, avgSpin |-> s, avgSpeed |-> p]

\* C7: buildIssues emits exactly the issues of the rule table: one wobble
\* issue of priority 100 iff avgWobble > 4, otherwise one of priority 60 iff
\* avgWobble > 3; one nose issue (90) iff avgNose > 4; one spin issue (70)
\* iff 0 < avgSpin < 900; one speed issue (40) iff 0 < avgSpeed < 50; and no
\* other issue.  {wobble 5, nose 2, spin 1000, speed 55} gives the single
\* wobble issue of priority 100, {wobble 2, nose 2, spin 1000, speed 55}
\* gives none.
C7_RuleTable ==
    diagPc = "done" =>
        /\ HasExactly("wobble",
               IF Above(stats.avgWobble, 4) THEN {100}
               ELSE IF Above(stats.avgWobble, 3) THEN {60} ELSE {})
        /\ HasExactly("nose", IF Above(stats.avgNose, 4) THEN {90} ELSE {})
        /\ HasExactly("spin",
               IF Above(stats.avgSpin, 0) /\ Below(stats.avgSpin, 900)
               THEN {70} ELSE {})
        /\ HasExactly("power",
               IF Above(stats.avgSpeed, 0) /\ Below(stats.avgSpeed, 50)
               THEN {40} ELSE {})
        /\ \A i \in 1..Len(issues) : issues[i].metric \in Metrics
        /\ stats = Averages(Num(5), Num(2), Num(1000), Num(55)) =>
               /\ Len(issues) = 1
               /\ issues[1].metric = "wobble"
               /\ issues[1].priority = 100
        /\ stats = Averages(Num(2), Num(2), Num(1000), Num(55)) =>
               issues = <<>>

C7_Witness ==
    /\ diagPc = "done"
    /\ stats = Averages(Num(5), Num(2), Num(1000), Num(55))
    /\ Len(issues) = 1
    /\ issues[1].priority = 100

\* C8: the list buildIssues returns is in strictly descending priority;
\* {wobble 4.2, nose 4.5, spin 800, speed 45} gives the four issues in the
\* order wobble (100), nose (90), spin (70), speed (40).
C8_Descending ==
    diagPc = "done" =>
        /\ \A i \in 1..(Len(issues) - 1) :
               issues[i].priority > issues[i + 1].priority
        /\ stats = Averages(Rat(42, 10), Rat(45, 10), Num(800), Num(45)) =>
               /\ [i \in 1..Len(issues) |-> issues[i].metric]
                      = <<"wobble", "nose", "spin", "power">>
               /\ [i \in 1..Len(issues) |-> issues[i].priority]
                      = <<100, 90, 70, 40>>

\* The mild wobble issue (60), pushed first, is returned after the nose
\* issue (90).
C8_Witness ==
    /\ diagPc = "done"
    /\ Len(issues) = 4
    /\ issues[1].metric = "nose"
    /\ issues[3].metric = "wobble"
    /\ issues[3].priority = 60

(***************************************************************************)
(* Claims about bandForMetric, checked under SpecBand                      *)
(***************************************************************************)
BandIs(b, s) == bandRet.band = b /\ bandRet.score01 = s

\* C10: for the nose metric every present value gets exactly one result:
\* 1 <= v <= 3 Advanced/0.9; 3 < v <= 5 Intermediate/0.55; v > 5
\* Beginner/0.2; -1 <= v < 1 Intermediate/0.6; v < -1 Intermediate/0.65.
\* The value 1 is Advanced and no value below 1 is Beginner.
C10_NoseBands ==
    (bandPc = "done" /\ metric = "nose" /\ bandValue # Undefined) =>
        LET v == bandValue
        IN  /\ (Ge(v, Num(1)) /\ Le(v, Num(3))) =>
                   BandIs("Advanced", Rat(9, 10))
            /\ (Gt(v, Num(3)) /\ Le(v, Num(5))) =>
                   BandIs("Intermediate", Rat(55, 100))
            /\ Gt(v, Num(5)) => BandIs("Beginner", Rat(2, 10))
            /\ (Ge(v, Num(-1)) /\ Lt(v, Num(1))) =>
                   BandIs("Intermediate", Rat(6, 10))
            /\ Lt(v, Num(-1)) => BandIs("Intermediate", Rat(65, 100))
            /\ v = Num(1) => bandRet.band = "Advanced"
            /\ Lt(v, Num(1)) => bandRet.band # "Beginner"

C10_Witness ==
    /\ bandPc = "done"
    /\ metric = "nose"
    /\ bandValue = Num(1)
    /\ BandIs("Advanced", Rat(9, 10))


\* C11: for every present value bandForMetric follows the threshold table
\* of the three monotonic metrics: spin >= 1100 Advanced/0.9, 950 <= spin <
\* 1100 Intermediate/0.65, spin < 950 Beginner/0.3 (1100 Advanced, 950
\* Intermediate, 500 Beginner); power >= 60 Advanced/0.9, 52 <= power < 60
\* Intermediate/0.65, else Beginner/0.35; wobble < 3 Advanced/0.9, 3 <=
\* wobble < 4.5 Intermediate/0.6, else Beginner/0.25.
C11_ThresholdTable ==
    (bandPc = "done" /\ bandValue # Undefined) =>
        LET v == bandValue
        IN  /\ metric = "spin" =>
                /\ Ge(v, Num(1100)) => BandIs("Advanced", Rat(9, 10))
                /\ (Ge(v, Num(950)) /\ Lt(v, Num(1100))) =>
                       BandIs("Intermediate", Rat(65, 100))
                /\ Lt(v, Num(950)) => BandIs("Beginner", Rat(3, 10))
                /\ v = Num(1100) => bandRet.band = "Advanced"
                /\ v = Num(950) => bandRet.band = "Intermediate"
                /\ v = Num(500) => bandRet.band = "Beginner"
            /\ metric = "power" =>
                /\ Ge(v, Num(60)) => BandIs("Advanced", Rat(9, 10))
                /\ (Ge(v, Num(52)) /\ Lt(v, Num(60))) =>
                       BandIs("Intermediate", Rat(65, 100))
                /\ Lt(v, Num(52)) => BandIs("Beginner", Rat(35, 100))
            /\ metric = "wobble" =>
                /\ Lt(v, Num(3)) => BandIs("Advanced", Rat(9, 10))
                /\ (Ge(v, Num(3)) /\ Lt(v, Rat(9, 2))) =>
                       BandIs("Intermediate", Rat(6, 10))
                /\ Ge(v, Rat(9, 2)) => BandIs("Beginner", Rat(25, 100))

C11_Witness ==
    /\ bandPc = "done"
    /\ metric = "spin"
    /\ bandValue = Num(950)
    /\ BandIs("Intermediate", Rat(65, 100))


(***************************************************************************)
(* Claims about the session statistics, checked under SpecSession          *)
(***************************************************************************)
\* The session average the page shows for metric m (lines 832-836).
AverageOf(st, m) ==
    IF m = "power" THEN st.avgSpeed
    ELSE IF m = "spin" THEN st.avgSpin
    ELSE IF m = "nose" THEN st.avgNose
    ELSE st.avgWobble

NoDataBand == [band |-> "Beginner", note |-> "No data", score01 |-> Num(0)]

\* C9: absence propagates: a metric whose session average is absent has no
\* percentile entry, the band Beginner / "No data" / 0 and no issue; and an
\* empty input gives count 0, the four averages and the four standard
\* deviations absent, no percentile, four "No data" bands and no issue.
C9_Absence ==
    sessPc = "done" =>
        /\ \A m \in Metrics :
               AverageOf(stats, m) = Undefined =>
                   /\ PercentileEntry(percentiles, m) = Undefined
                   /\ bandForMetric(m, AverageOf(stats, m)) = NoDataBand
                   /\ \A i \in 1..Len(issues) : issues[i].metric # m
        /\ rows = <<>> =>
               /\ stats.count = 0
               /\ \A m \in Metrics : AverageOf(stats, m) = Undefined
               /\ stats.sdSpeed = Undefined
               /\ stats.sdSpin = Undefined
               /\ stats.sdNose = Undefined
               /\ stats.sdWobble = Undefined
               /\ DOMAIN percentiles = {}
               /\ \A m \in Metrics :
                      bandForMetric(m, AverageOf(stats, m)) = NoDataBand
               /\ issues = <<>>

\* A session with usable throws in which spin and nose are absent while
\* speed and wobble are present, ranked and diagnosed.
C9_Witness ==
    /\ sessPc = "done"
    /\ stats.count = 2
    /\ stats.avgSpin = Undefined
    /\ stats.avgNose = Undefined
    /\ DOMAIN percentiles = {"power", "wobble"}
    /\ Len(issues) = 2

(***************************************************************************)
(* Band and diagnosis together, checked under SpecDiag                     *)
(***************************************************************************)
\* C19: for every metric and every present average, when bandForMetric
\* gives Advanced for the metric, buildIssues emits no issue for it.
C19_AdvancedNoIssue ==
    diagPc = "done" =>
        \A m \in Metrics :
            (/\ AverageOf(stats, m) # Undefined
             /\ bandForMetric(m, AverageOf(stats, m)).band = "Advanced") =>
                CountOf(m) = 0

\* Every metric is Advanced at once and the list is empty.
C19_Witness ==
    /\ diagPc = "done"
    /\ \A m \in Metrics :
           bandForMetric(m, AverageOf(stats, m)).band = "Advanced"
    /\ issues = <<>>

(***************************************************************************)
(* C17, checked under SpecSession                                          *)
(***************************************************************************)
Carries(cell) == cell.kind = "numeric"

\* The rows that carry speed or spin, in file order.
UsableRows ==
    SelectSeq(rows, LAMBDA r : Carries(r.speedMph) \/ Carries(r.spinRpm))

\* The values of one column over the usable rows that carry it.
SpeedsCarried ==
    LET u == SelectSeq(UsableRows, LAMBDA r : Carries(r.speedMph))
    IN  [i \in 1..Len(u) |-> u[i].speedMph.val]

SpinsCarried ==
    LET u == SelectSeq(UsableRows, LAMBDA r : Carries(r.spinRpm))
    IN  [i \in 1..Len(u) |-> u[i].spinRpm.val]

NosesCarried ==
    LET u == SelectSeq(UsableRows, LAMBDA r : Carries(r.noseAngle))
    IN  [i \in 1..Len(u) |-> u[i].noseAngle.val]

WobblesCarried ==
    LET u == SelectSeq(UsableRows, LAMBDA r : Carries(r.wobbleAngle))
    IN  [i \in 1..Len(u) |-> u[i].wobbleAngle.val]

\* The largest element of s, or Undefined for the empty sequence.
Largest(s) ==
    IF s = <<>> THEN Undefined
    ELSE CHOOSE x \in {s[i] : i \in 1..Len(s)} :
             \A i \in 1..Len(s) : Ge(x, s[i])

\* C17: the session count is the number of throws that carry speed or spin,
\* and each metric's mean, standard deviation and best value are those of
\* the usable throws that carry the metric; a throw that carries nose or
\* wobble but neither speed nor spin contributes to no statistic.
C17_UsableThrows ==
    sessPc = "done" =>
        /\ stats.count = Len(UsableRows)
        /\ stats.avgSpeed = mean(SpeedsCarried)
        /\ stats.avgSpin = mean(SpinsCarried)
        /\ stats.avgNose = mean(NosesCarried)
        /\ stats.avgWobble = mean(WobblesCarried)
        /\ stats.sdSpeed = sd(SpeedsCarried)
        /\ stats.sdSpin = sd(SpinsCarried)
        /\ stats.sdNose = sd(NosesCarried)
        /\ stats.sdWobble = sd(WobblesCarried)
        /\ stats.bestSpeed = Largest(SpeedsCarried)
        /\ stats.bestSpin = Largest(SpinsCarried)

\* A file whose first row carries only nose and wobble, different from the
\* nose and wobble of its usable second row.
C17_Witness ==
    /\ sessPc = "done"
    /\ Len(rows) = 2
    /\ ~Carries(rows[1].speedMph) /\ ~Carries(rows[1].spinRpm)
    /\ Carries(rows[1].noseAngle) /\ Carries(rows[1].wobbleAngle)
    /\ Carries(rows[2].speedMph)
    /\ Carries(rows[2].noseAngle) /\ Carries(rows[2].wobbleAngle)
    /\ rows[1].noseAngle # rows[2].noseAngle
    /\ rows[1].wobbleAngle # rows[2].wobbleAngle
    /\ stats.count = 1
    /\ stats.avgNose = rows[2].noseAngle.val
    /\ stats.avgWobble = rows[2].wobbleAngle.val

(***************************************************************************)
(* Page: file selection, parse completion and Clear (lines 768-810)        *)
(***************************************************************************)
RowA ==
    [speedMph |-> CellNumber(Num(45)), spinRpm |-> CellNumber(Num(800)),
     noseAngle |-> CellNumber(Num(5)), wobbleAngle |-> CellNumber(Num(2))]

RowB ==
    [speedMph |-> CellNumber(Num(45)), spinRpm |-> CellMissing,
     noseAngle |-> CellText, wobbleAngle |-> CellNumber(Num(5))]

\* What Papa.parse hands to complete for each file the user can pick: its
\* errors and the rows it could read (a result always carries a data
\* array, so the ?? of line 778 never takes its right side).
ParseResults ==
    { [errors |-> <<>>, data |-> <<RowA>>],
      [errors |-> <<>>, data |-> <<RowB, RowA>>],
      [errors |-> <<>>, data |-> <<>>],
      [errors |-> <<[message |-> "Too few fields"]>>, data |-> <<RowB>>],
      [errors |-> <<[message |-> ""], [message |-> "Quotes"]>>,
       data |-> <<>>] }

\* Lines 774-778 without the return: rows are replaced after an error too.
completeNoReturn(res, rs, err) ==
    IF Len(res.errors) > 0
    THEN [rows |-> res.data,
          error |-> [message |->
                        IF res.errors[1].message # ""
                        THEN res.errors[1].message
                        ELSE "CSV parse error"]]
    ELSE [rows |-> res.data, error |-> err]

\* Lines 773-779: the rows and error state after complete(res) ran on the
\* rows rs and the error err.
complete(res, rs, err) ==
    IF Len(res.errors) > 0
    THEN [rows |-> rs,
          error |-> [message |->
                        IF res.errors[1].message # ""
                        THEN res.errors[1].message
                        ELSE "CSV parse error"]]
    ELSE [rows |-> res.data, error |-> err]

InitPage ==
    /\ PageIdle
    /\ SessIdle
    /\ PctIdle
    /\ NoseIdle
    /\ HistIdle
    /\ BandIdle
    /\ DiagIdle
    /\ HeapIdle
    /\ GenIdle
    /\ SdIdle

\* Lines 794-801 and 768-771: the user picks a file; parseCsv clears the
\* error and starts the parse.
SelectFile ==
    /\ clicks < MaxClicks
    /\ \E res \in ParseResults :
           parsing' = parsing \cup {[id |-> clicks + 1, res |-> res]}
    /\ error' = Null
    /\ clicks' = clicks + 1
    /\ UNCHANGED <<rows, rowsFrom>>
    /\ UNCHANGED <<globalStats, throws, cleanThrows, percentiles, sessPc>>
    /\ UNCHANGED <<pctVars, noseVars, histVars, bandVars,
                   diagVars,
                   heapVars, genVars, sdVars>>

\* Lines 773-779: the complete callback of one parse runs.
ParseComplete ==
    /\ \E job \in parsing :
           LET after == complete(job.res, rows, error)
           IN  /\ parsing' = parsing \ {job}
               /\ rows' = after.rows
               /\ error' = after.error
               /\ rowsFrom' =
                      IF Len(job.res.errors) > 0 THEN rowsFrom ELSE job.id
    /\ UNCHANGED clicks
    /\ UNCHANGED <<globalStats, throws, cleanThrows, percentiles, sessPc>>
    /\ UNCHANGED <<pctVars, noseVars, histVars, bandVars,
                   diagVars,
                   heapVars, genVars, sdVars>>

\* Lines 802-810.
Clear ==
    /\ clicks < MaxClicks
    /\ rows' = <<>>
    /\ error' = Null
    /\ clicks' = clicks + 1
    /\ rowsFrom' = clicks + 1
    /\ UNCHANGED parsing
    /\ UNCHANGED <<globalStats, throws, cleanThrows, percentiles, sessPc>>
    /\ UNCHANGED <<pctVars, noseVars, histVars, bandVars,
                   diagVars,
                   heapVars, genVars, sdVars>>

NextPage ==
    \/ SelectFile
    \/ ParseComplete
    \/ Clear

SpecPage == InitPage /\ [][NextPage]_vars

(***************************************************************************)
(* Claims about the page state, checked under SpecPage                     *)
(***************************************************************************)
\* The step is the completion of job.
Completes(job) == job \in parsing /\ parsing' = parsing \ {job}

\* The step is a click on Clear.
Clears == clicks' = clicks + 1 /\ parsing' = parsing

C18_Step ==
    /\ \A job \in parsing :
           (Completes(job) /\ Len(job.res.errors) > 0) =>
               error' # Null /\ rows' = rows
    /\ rows' # rows =>
           \/ Clears
           \/ \E job \in parsing :
                  /\ Completes(job)
                  /\ Len(job.res.errors) = 0
                  /\ rows' = job.res.data
    /\ Clears => rows' = <<>> /\ error' = Null

\* C18: a parse completion that reports an error sets error to a non-null
\* value and leaves rows unchanged; rows change only by an error-free
\* completion, which replaces them with the parsed rows, or by Clear; and
\* Clear sets rows to empty and error to null.
C18_ErrorKeepsRows == [][C18_Step]_vars

\* Two rows are loaded, a second file reported an error without a message,
\* and nothing is in flight.
C18_Witness ==
    /\ rows = <<RowB, RowA>>
    /\ error = [message |-> "CSV parse error"]
    /\ parsing = {}
    /\ clicks = 2
    /\ rowsFrom = 1

\* The outcome of an older user action than the one rows show does not
\* change rows, and a completion that replaces rows does not leave the
\* error of another parse on screen.
C20_Step ==
    /\ rowsFrom' < rowsFrom => rows' = rows
    /\ rowsFrom' # rowsFrom => error' = Null

\* C20: under every interleaving of file selections, Clear clicks and parse
\* completions, the completion of an earlier-selected file never overwrites
\* the rows of a later-selected file, never repopulates rows after a later
\* Clear, and a non-null error is never shown with rows from a different,
\* later-completing parse.
C20_LatestActionWins == [][C20_Step]_vars

(***************************************************************************)
(* The population arrays as objects (lines 347-429)                        *)
(***************************************************************************)
\* Math.min(...values) of a non-empty array.
RECURSIVE MathMin(_)
MathMin(arr) ==
    IF Len(arr) = 1 THEN arr[1]
    ELSE LET r == MathMin(Tail(arr))
         IN  IF Le(arr[1], r) THEN arr[1] ELSE r

NumMax(a, b) == IF Ge(a, b) THEN a ELSE b
NumMin(a, b) == IF Le(a, b) THEN a ELSE b

\* Lines 391-402; 0.08 is kept exact as 2/25.
niceRange(m, vals) ==
    LET vmin == MathMin(vals)
        vmax == MathMax(vals)
        d    == Mul(Sub(vmax, vmin), Rat(2, 25))
        pad  == IF d = Num(0) THEN Num(1) ELSE d
        lowest  == IF m = "spin" THEN 300 ELSE IF m = "power" THEN 20
                   ELSE IF m = "nose" THEN -10 ELSE 0
        highest == IF m = "spin" THEN 1300 ELSE IF m = "power" THEN 75
                   ELSE IF m = "nose" THEN 18 ELSE 12
    IN  [min |-> NumMax(Num(lowest), Sub(vmin, pad)),
         max |-> NumMin(Num(highest), Add(vmax, pad))]

\* Lines 378-382: the for-of loop over vals.
RECURSIVE CountAll(_, _, _, _, _)
CountAll(c, vals, n, mn, mx) ==
    IF vals = <<>> THEN c
    ELSE CountAll(CountValue(c, Head(vals), n, mn, mx), Tail(vals), n, mn, mx)

\* Lines 373-384: the counts of the returned object.
computeHistogram(vals, n, mn, mx) ==
    IF Le(Sub(mx, mn), Num(0)) THEN ZeroCounts(n)
    ELSE CountAll(ZeroCounts(n), vals, n, mn, mx)

\* Line 598.
histogramBins == 24

\* Lines 404-409 and 411-416: the address of the array a metric reads.
metricToGlobalArray(m, ga) ==
    IF m = "spin" THEN ga.spin
    ELSE IF m = "power" THEN ga.speed
    ELSE IF m = "nose" THEN ga.nose
    ELSE ga.wobble

metricToSortedArray(m, ga) ==
    IF m = "spin" THEN ga.spinSorted
    ELSE IF m = "power" THEN ga.speedSorted
    ELSE IF m = "nose" THEN ga.noseSorted
    ELSE ga.wobbleSorted

\* Lines 326-352: the heap and the returned object once generation has
\* pushed the four arrays and sorted a spread copy of each.
GeneratedHeap(speed, spin, nose, wobble) ==
    <<speed, spin, nose, wobble,
      SortAsc(speed), SortAsc(spin), SortAsc(nose), SortAsc(wobble)>>

GeneratedObject ==
    [speed |-> 1, spin |-> 2, nose |-> 3, wobble |-> 4,
     speedSorted |-> 5, spinSorted |-> 6, noseSorted |-> 7,
     wobbleSorted |-> 8]

\* Line 426 with the sort applied to g.nose itself instead of to the array
\* that map returns.
NosePercentileOnHeapInPlace(h, avg, ga) ==
    LET sorted == [h EXCEPT ![ga.nose] = NoseDistArr(@)]
    IN  [heap |-> sorted,
         ret |-> percentileOf(NoseUserDist(avg), sorted[ga.nose], FALSE)]

\* Lines 424-429 on array objects: map allocates a new array, sort orders
\* that array in place, percentileOf reads it.
NosePercentileOnHeap(h, avg, ga) ==
    LET mapped == Append(h, NoseDistArrUnsorted(h[ga.nose]))
        d      == Len(mapped)
        sorted == [mapped EXCEPT ![d] = SortAsc(@)]
    IN  [heap |-> sorted,
         ret |-> percentileOf(NoseUserDist(avg), sorted[d], FALSE)]

\* Lines 598-600 on array objects: niceRange and computeHistogram read
\* globalValues, new Array(bins) is the one allocation.
HistogramOnHeap(h, m, ga) ==
    LET vals == h[metricToGlobalArray(m, ga)]
        r    == niceRange(m, vals)
        c    == computeHistogram(vals, histogramBins, r.min, r.max)
    IN  [heap |-> Append(h, c), ret |-> Len(h) + 1]

\* The user averages the operations are asked about.
HeapObsVals == {Rat(3, 2), Num(3), Num(50), Num(900)}

\* The nose arrays of a population of 1..MaxPop throwers.
NoseArrays == UNION {[1..n -> PopVals] : n \in 1..MaxPop}

InitHeap ==
    /\ \E nose \in NoseArrays :
           LET n == Len(nose)
           IN  heap = GeneratedHeap(SubSeq(SamplePopulation.speed, 1, n),
                                    SubSeq(SamplePopulation.spin, 1, n),
                                    nose,
                                    SubSeq(SamplePopulation.wobble, 1, n))
    /\ gAddr = GeneratedObject
    /\ heapOps = 0
    /\ lastCall = Undefined
    /\ PctIdle
    /\ NoseIdle
    /\ HistIdle
    /\ BandIdle
    /\ DiagIdle
    /\ SessIdle
    /\ PageIdle
    /\ GenIdle
    /\ SdIdle

\* Lines 761-763: percentileOf on a sorted population array.
HeapPercentile ==
    /\ heapOps < MaxOps
    /\ \E m \in {"power", "spin", "wobble"}, v \in HeapObsVals :
           lastCall' =
               [op |-> "percentileOf",
                ret |-> percentileOf(v, heap[metricToSortedArray(m, gAddr)],
                                     m # "wobble")]
    /\ heapOps' = heapOps + 1
    /\ UNCHANGED <<heap, gAddr>>
    /\ UNCHANGED <<pctVars, noseVars, histVars, bandVars,
                   diagVars,
                   sessVars,
                   pageVars, genVars, sdVars>>

\* Line 764.
HeapNosePercentile ==
    /\ heapOps < MaxOps
    /\ \E v \in HeapObsVals :
           LET after == NosePercentileOnHeap(heap, v, gAddr)
           IN  /\ heap' = after.heap
               /\ lastCall' = [op |-> "nosePercentileFromAvg",
                               ret |-> after.ret]
    /\ heapOps' = heapOps + 1
    /\ UNCHANGED gAddr
    /\ UNCHANGED <<pctVars, noseVars, histVars, bandVars,
                   diagVars,
                   sessVars,
                   pageVars, genVars, sdVars>>

\* Lines 598-600, called with metricToGlobalArray(m, globalStats) (line 830).
HeapHistogram ==
    /\ heapOps < MaxOps
    /\ \E m \in Metrics :
           LET after == HistogramOnHeap(heap, m, gAddr)
           IN  /\ heap' = after.heap
               /\ lastCall' = [op |-> "computeHistogram", ret |-> after.ret]
    /\ heapOps' = heapOps + 1
    /\ UNCHANGED gAddr
    /\ UNCHANGED <<pctVars, noseVars, histVars, bandVars,
                   diagVars,
                   sessVars,
                   pageVars, genVars, sdVars>>

\* Lines 418-421 (called at line 831) and 701-704.
HeapMean ==
    /\ heapOps < MaxOps
    /\ \E m \in Metrics :
           lastCall' = [op |-> "metricMean",
                        ret |-> mean(heap[metricToGlobalArray(m, gAddr)])]
    /\ heapOps' = heapOps + 1
    /\ UNCHANGED <<heap, gAddr>>
    /\ UNCHANGED <<pctVars, noseVars, histVars, bandVars,
                   diagVars,
                   sessVars,
                   pageVars, genVars, sdVars>>

NextHeap ==
    \/ HeapPercentile
    \/ HeapNosePercentile
    \/ HeapHistogram
    \/ HeapMean

SpecHeap == InitHeap /\ [][NextHeap]_vars

(***************************************************************************)
(* C15, checked under SpecHeap                                             *)
(***************************************************************************)
PopulationFields == DOMAIN GeneratedObject

C15_Step ==
    /\ gAddr' = gAddr
    /\ \A f \in PopulationFields : heap'[gAddr'[f]] = heap[gAddr[f]]
    /\ (heapOps' # heapOps /\ lastCall'.op = "nosePercentileFromAvg") =>
           LET d == Len(heap')
           IN  /\ d = Len(heap) + 1
               /\ \A f \in PopulationFields : gAddr[f] # d
               /\ IsSortedAsc(heap'[d])
               /\ Len(heap'[d]) = Len(heap[gAddr.nose])

\* C15: no percentile query, histogram build or mean computation changes
\* any of the eight population arrays in content or order; the nose
\* distance array that nosePercentileFromAvg sorts is a new array, none of
\* the eight.
C15_PopulationUntouched == [][C15_Step]_vars

\* A nose percentile has been computed over an unsorted nose array whose
\* distances come out in another order than the array itself, and a
\* histogram has been built as well.
C15_Witness ==
    /\ heapOps = 2
    /\ Len(heap) = 10
    /\ lastCall.op = "nosePercentileFromAvg"
    /\ heap[gAddr.nose] = <<Num(3), Num(2), Num(1)>>
    /\ heap[gAddr.noseSorted] = <<Num(1), Num(2), Num(3)>>
    /\ heap[10] = <<Num(0), Num(1), Num(1)>>

(***************************************************************************)
(* mulberry32 (lines 308-315)                                              *)
(*                                                                         *)
(* A 32-bit word is <<lo, hi>>, its low and high 16 bits.  The seed cell   *)
(* of a closure is a JavaScript number; it holds a non-negative integer    *)
(* below 2^53 here, written as four 16-bit limbs, lowest first.            *)
(***************************************************************************)
Limb == 65536

\* The seed cell holding the small integer n.
SeedOf(n) == <<n % Limb, n \div Limb, 0, 0>>

\* Line 310: the constant 0x6d2b79f5.
Increment == <<31221, 27947, 0, 0>>

\* Line 310: seed += 0x6d2b79f5, an addition of numbers.
RECURSIVE AddLimbs(_, _, _)
AddLimbs(a, b, carry) ==
    IF a = <<>> THEN <<>>
    ELSE LET s == Head(a) + Head(b) + carry
         IN  <<s % Limb>> \o AddLimbs(Tail(a), Tail(b), s \div Limb)

\* ToInt32 of a number: its low 32 bits.
ToInt32(n) == <<n[1], n[2]>>

\* a ^ b and a | b on 16-bit integers.
RECURSIVE Xor16(_, _)
Xor16(a, b) ==
    IF a = 0 THEN b
    ELSE IF b = 0 THEN a
    ELSE ((a + b) % 2) + 2 * Xor16(a \div 2, b \div 2)

RECURSIVE Or16(_, _)
Or16(a, b) ==
    IF a = 0 THEN b
    ELSE IF b = 0 THEN a
    ELSE (IF (a % 2) + (b % 2) > 0 THEN 1 ELSE 0)
         + 2 * Or16(a \div 2, b \div 2)

Xor(a, b) == <<Xor16(a[1], b[1]), Xor16(a[2], b[2])>>

OrSmall(a, k) == <<Or16(a[1], k), a[2]>>

Pow2(n) == IF n = 0 THEN 1 ELSE 2 ^ n

\* a >>> n for 0 < n < 16.
Shr(a, n) ==
    <<(a[1] \div Pow2(n)) + (a[2] % Pow2(n)) * Pow2(16 - n),
      a[2] \div Pow2(n)>>

\* The sum of two 32-bit integers, read back as a 32-bit integer.
Add32(a, b) ==
    LET s == a[1] + b[1]
    IN  <<s % Limb, (a[2] + b[2] + s \div Limb) % Limb>>

\* The element of a one-element set.  A value that several later steps
\* read is bound as x in {e : x \in {value}}, which computes it once.
Only(S) == CHOOSE x \in S : TRUE

\* Math.imul: the low 32 bits of the product, computed on bytes.
Imul(a, b) ==
    LET x  == <<a[1] % 256, a[1] \div 256, a[2] % 256, a[2] \div 256>>
        y  == <<b[1] % 256, b[1] \div 256, b[2] % 256, b[2] \div 256>>
        c0 == x[1] * y[1]
        c1 == x[1] * y[2] + x[2] * y[1] + c0 \div 256
        c2 == x[1] * y[3] + x[2] * y[2] + x[3] * y[1] + c1 \div 256
        c3 == x[1] * y[4] + x[2] * y[3] + x[3] * y[2] + x[4] * y[1]
              + c2 \div 256
    IN  <<(c0 % 256) + 256 * (c1 % 256), (c2 % 256) + 256 * (c3 % 256)>>

\* Lines 310-313: one call of the closure whose seed cell holds s.  seed is
\* the cell afterwards, k the unsigned 32-bit integer that line 313 divides
\* by 4294967296.
Draw(s) ==
    Only({
     Only({
      Only({
       Only({
        [seed |-> seed1, k |-> Xor(t2, Shr(t2, 14))]
        : t2 \in {Xor(t1, Add32(t1, Imul(Xor(t1, Shr(t1, 7)),
                                         OrSmall(t1, 61))))}})
       : t1 \in {Imul(Xor(t0, Shr(t0, 15)), OrSmall(t0, 1))}})
      : t0 \in {ToInt32(seed1)}})
     : seed1 \in {AddLimbs(s, Increment, 0)}})

(***************************************************************************)
(* generateSyntheticGlobalStats (lines 317-353)                            *)
(***************************************************************************)
\* mulberry32 keeping one seed cell for every caller: a call after the
\* first hands out the closure made first.
mulberry32Singleton(h, seed) ==
    IF h = <<>> THEN [heap |-> <<SeedOf(seed)>>, rng |-> 1]
    ELSE [heap |-> h, rng |-> 1]

\* Lines 308-309: a new closure over its own seed cell.
mulberry32(h, seed) == [heap |-> Append(h, SeedOf(seed)), rng |-> Len(h) + 1]

\* One call rng() of the closure at address r.
CallRng(h, r) ==
    Only({[heap |-> [h EXCEPT ![r] = d.seed], k |-> d.k] : d \in {Draw(h[r])}})

\* Lines 320-321: call rng until it returns a non-zero value.
RECURSIVE DrawNonZero(_, _)
DrawNonZero(h, r) ==
    Only({IF c.k = <<0, 0>> THEN DrawNonZero(c.heap, r) ELSE c
          : c \in {CallRng(h, r)}})

\* Line 322 on a grid: u and v are read to their two highest bits, and
\* sqrt(-2 ln u) and cos(2 pi v) are taken at the middle of the quarter
\* each lies in, rounded to 2, 3/2, 1, 1/2 and to 3/4, -3/4, -3/4, 3/4.
BoxMuller(u, v) ==
    LET qu == u[2] \div 16384
        qv == v[2] \div 16384
        radius == IF qu = 0 THEN Num(2) ELSE IF qu = 1 THEN Rat(3, 2)
                  ELSE IF qu = 2 THEN Num(1) ELSE Rat(1, 2)
        cosine == IF qv \in {0, 3} THEN Rat(3, 4) ELSE Rat(-3, 4)
    IN  Mul(radius, cosine)

\* Lines 317-323.
randNormal(h, r) ==
    Only({
     Only({
      [heap |-> v.heap, z |-> BoxMuller(u.k, v.k)]
      : v \in {DrawNonZero(u.heap, r)}})
     : u \in {DrawNonZero(h, r)}})

\* Lines 183-185.
clamp(x, low, high) == NumMax(low, NumMin(high, x))

\* Lines 335-339: the four values of one thrower from its five normal
\* draws.
ThrowerValues(skill, n1, n2, n3, n4) ==
    LET spd == clamp(Add(Num(47),
                         Add(Mul(Rat(21, 5), skill), Mul(Rat(19, 5), n1))),
                     Num(25), Num(68))
        wob == clamp(Add(Sub(Rat(43, 10), Mul(Rat(9, 10), skill)),
                         Mul(Rat(9, 10), MathAbs(n2))),
                     Rat(4, 5), Num(11))
        nos == clamp(Add(Add(Sub(Num(3), Mul(Rat(2, 5), skill)),
                             Mul(Rat(11, 20), Sub(wob, Rat(7, 2)))),
                         Mul(Rat(9, 5), n3)),
                     Num(-6), Num(14))
        spn == clamp(Add(Add(Num(860),
                             Mul(Rat(21, 2), Sub(spd, Num(45)))),
                         Add(Sub(Mul(Num(70), skill),
                                 Mul(Num(20), Sub(wob, Rat(7, 2)))),
                             Mul(Num(85), n4))),
                     Num(350), Num(1250))
    IN  [spd |-> spd, wob |-> wob, nos |-> nos, spn |-> spn]

\* Lines 334-339: the five calls of randNormal in the order of the code,
\* and the heap after them.
Thrower(h, r) ==
    Only({
     Only({
      Only({
       Only({
        Only({
         [heap |-> n4.heap]
         @@ ThrowerValues(skill.z, n1.z, n2.z, n3.z, n4.z)
         : n4 \in {randNormal(n3.heap, r)}})
        : n3 \in {randNormal(n2.heap, r)}})
       : n2 \in {randNormal(n1.heap, r)}})
      : n1 \in {randNormal(skill.heap, r)}})
     : skill \in {randNormal(h, r)}})

\* The seeds used: the page's 1337 and another.
GenSeeds == {1337, 7}

InitGen ==
    /\ GenIdle
    /\ PctIdle
    /\ NoseIdle
    /\ HistIdle
    /\ BandIdle
    /\ DiagIdle
    /\ SessIdle
    /\ PageIdle
    /\ HeapIdle
    /\ SdIdle

\* Lines 325-331: the call is entered, its generator made and its arrays
\* empty.
GenerateEnter ==
    /\ genPc = "idle"
    /\ Len(generated) < MaxCalls
    /\ \E n \in 0..MaxSamples, seed \in GenSeeds :
           LET made == mulberry32(rngCells, seed)
           IN  /\ rngCells' = made.heap
               /\ genFrame' =
                      [nSessions |-> n, seed |-> seed, at |-> draws,
                       rng |-> made.rng, i |-> 0,
                       speed |-> <<>>, spin |-> <<>>, nose |-> <<>>,
                       wobble |-> <<>>]
    /\ genPc' = "loop"
    /\ UNCHANGED <<rngs, draws, lastDraw, generated>>
    /\ UNCHANGED <<pctVars, noseVars, histVars, bandVars, diagVars,
                   sessVars,
                   pageVars, heapVars, sdVars>>

\* Lines 333-345: one iteration of the loop.
GenerateLoop ==
    /\ genPc = "loop"
    /\ genFrame.i < genFrame.nSessions
    /\ \E th \in {Thrower(rngCells, genFrame.rng)} :
           /\ rngCells' = th.heap
           /\ genFrame' =
                  [genFrame EXCEPT
                      !.i = @ + 1,
                      !.speed = Append(@, th.spd),
                      !.wobble = Append(@, th.wob),
                      !.nose = Append(@, th.nos),
                      !.spin = Append(@, th.spn)]
    /\ UNCHANGED <<rngs, draws, lastDraw, generated, genPc>>
    /\ UNCHANGED <<pctVars, noseVars, histVars, bandVars, diagVars,
                   sessVars,
                   pageVars, heapVars, sdVars>>

\* Lines 347-352: the loop is left, the copies are sorted and the object
\* is returned.
GenerateReturn ==
    /\ genPc = "loop"
    /\ ~(genFrame.i < genFrame.nSessions)
    /\ generated' =
           Append(generated,
                  [n |-> genFrame.nSessions, seed |-> genFrame.seed,
                   at |-> genFrame.at,
                   out |-> MakeGlobalStats(genFrame.speed, genFrame.spin,
                                           genFrame.nose, genFrame.wobble)])
    /\ genFrame' = Undefined
    /\ genPc' = "idle"
    /\ UNCHANGED <<rngCells, rngs, draws, lastDraw>>
    /\ UNCHANGED <<pctVars, noseVars, histVars, bandVars, diagVars,
                   sessVars,
                   pageVars, heapVars, sdVars>>

\* Lines 308-309: other code makes a generator of its own (one is enough
\* to draw between two calls).
NewRng ==
    /\ genPc = "idle"
    /\ rngs = {}
    /\ \E seed \in GenSeeds :
           LET made == mulberry32(rngCells, seed)
           IN  /\ rngCells' = made.heap
               /\ rngs' = rngs \cup {made.rng}
    /\ UNCHANGED <<draws, lastDraw, generated, genFrame, genPc>>
    /\ UNCHANGED <<pctVars, noseVars, histVars, bandVars, diagVars,
                   sessVars,
                   pageVars, heapVars, sdVars>>

\* Lines 310-313: other code draws from a generator it holds.
RngDraw ==
    /\ genPc = "idle"
    /\ draws < MaxDraws
    /\ \E r \in rngs :
           \E c \in {CallRng(rngCells, r)} :
               /\ rngCells' = c.heap
               /\ lastDraw' = c.k
    /\ draws' = draws + 1
    /\ UNCHANGED <<rngs, generated, genFrame, genPc>>
    /\ UNCHANGED <<pctVars, noseVars, histVars, bandVars, diagVars,
                   sessVars,
                   pageVars, heapVars, sdVars>>

NextGen ==
    \/ GenerateEnter
    \/ GenerateLoop
    \/ GenerateReturn
    \/ NewRng
    \/ RngDraw

SpecGen == InitGen /\ [][NextGen]_vars

(***************************************************************************)
(* Claims about the generator, checked under SpecGen                       *)
(***************************************************************************)
\* The number of positions of s that hold x.
Occurrences(x, s) == Cardinality({i \in 1..Len(s) : s[i] = x})

IsPermutation(a, b) ==
    /\ Len(a) = Len(b)
    /\ \A i \in 1..Len(a) : Occurrences(a[i], a) = Occurrences(a[i], b)

SortedCopyOf(a, b) == IsSortedAsc(b) /\ IsPermutation(a, b)

\* C13: every call generateSyntheticGlobalStats(n, seed) returns four
\* arrays and four sorted arrays of length n, and each sorted array is
\* non-decreasing and a permutation of its unsorted array.
C13_SortedCopies ==
    \A c \in 1..Len(generated) :
        LET o == generated[c].out
        IN  /\ \A f \in DOMAIN o : Len(o[f]) = generated[c].n
            /\ SortedCopyOf(o.speed, o.speedSorted)
            /\ SortedCopyOf(o.spin, o.spinSorted)
            /\ SortedCopyOf(o.nose, o.noseSorted)
            /\ SortedCopyOf(o.wobble, o.wobbleSorted)

\* A population of two throwers generated in descending order of speed.
C13_Witness ==
    \E c \in 1..Len(generated) :
        /\ generated[c].n = 2
        /\ generated[c].out.speed # generated[c].out.speedSorted
        /\ Lt(generated[c].out.speed[2], generated[c].out.speed[1])

\* C14: two calls with the same n and seed return the same arrays element
\* for element, whatever generator calls and draws happened between them.
C14_Deterministic ==
    \A c, d \in 1..Len(generated) :
        (generated[c].n = generated[d].n
         /\ generated[c].seed = generated[d].seed) =>
            generated[c].out = generated[d].out

\* The same non-empty population was generated twice, with draws from
\* another generator of the same seed in between.
C14_Witness ==
    /\ Len(generated) = 2
    /\ generated[1].n = generated[2].n
    /\ generated[1].n > 0
    /\ generated[1].seed = generated[2].seed
    /\ generated[1].at < generated[2].at
    /\ \E r \in rngs : r = 2

\* C16: the seed cell of every generator is a 32-bit integer after any
\* number of draws, and every value drawn is k / 2^32 for an integer k with
\* 0 <= k < 2^32.
C16_State32 ==
    /\ \A r \in 1..Len(rngCells) : rngCells[r][3] = 0 /\ rngCells[r][4] = 0
    /\ lastDraw # <<>> =>
           /\ lastDraw[1] \in 0..(Limb - 1)
           /\ lastDraw[2] \in 0..(Limb - 1)

(***************************************************************************)
(* binary64 arithmetic, and mean and sd on it (lines 150-157)              *)
(*                                                                         *)
(* A natural number is the sequence of its digits in base 2^15, lowest     *)
(* first, without a leading zero.  A finite binary64 number is             *)
(* [neg, mag, exp], the value (-1)^neg * mag * 2^exp with                  *)
(* 2^52 <= mag < 2^53, or zero.  The exponent range (overflow, subnormal   *)
(* numbers) is left out.                                                   *)
(***************************************************************************)
\* The significant bits of a binary64 number.
Precision == 53

Radix == 32768

RECURSIVE TrimDigits(_)
TrimDigits(p) ==
    IF p # <<>> /\ p[Len(p)] = 0 THEN TrimDigits(SubSeq(p, 1, Len(p) - 1))
    ELSE p

RECURSIVE DigitsOf(_)
DigitsOf(k) == IF k = 0 THEN <<>> ELSE <<k % Radix>> \o DigitsOf(k \div Radix)

Zeros(k) == [i \in 1..k |-> 0]

RECURSIVE AddDigits(_, _, _)
AddDigits(p, q, carry) ==
    IF p = <<>> /\ q = <<>> THEN DigitsOf(carry)
    ELSE LET x == IF p = <<>> THEN 0 ELSE Head(p)
             y == IF q = <<>> THEN 0 ELSE Head(q)
             s == x + y + carry
         IN  <<s % Radix>> \o AddDigits(IF p = <<>> THEN <<>> ELSE Tail(p),
                                        IF q = <<>> THEN <<>> ELSE Tail(q),
                                        s \div Radix)

\* p - q for p >= q, as long as p.
RECURSIVE SubDigits(_, _, _)
SubDigits(p, q, borrow) ==
    IF p = <<>> THEN <<>>
    ELSE LET y == IF q = <<>> THEN 0 ELSE Head(q)
             d == Head(p) - y - borrow
         IN  <<d % Radix>> \o SubDigits(Tail(p),
                                        IF q = <<>> THEN <<>> ELSE Tail(q),
                                        IF d < 0 THEN 1 ELSE 0)

\* p < q for trimmed p and q.
RECURSIVE LessDigits(_, _)
LessDigits(p, q) ==
    IF Len(p) # Len(q) THEN Len(p) < Len(q)
    ELSE IF p = <<>> THEN FALSE
    ELSE IF p[Len(p)] # q[Len(q)] THEN p[Len(p)] < q[Len(q)]
    ELSE LessDigits(SubSeq(p, 1, Len(p) - 1), SubSeq(q, 1, Len(q) - 1))

\* p * m + carry for one digit m.
RECURSIVE MulDigit(_, _, _)
MulDigit(p, m, carry) ==
    IF p = <<>> THEN DigitsOf(carry)
    ELSE LET s == Head(p) * m + carry
         IN  <<s % Radix>> \o MulDigit(Tail(p), m, s \div Radix)

RECURSIVE MulDigits(_, _)
MulDigits(p, q) ==
    IF p = <<>> THEN <<>>
    ELSE AddDigits(MulDigit(q, Head(p), 0), <<0>> \o MulDigits(Tail(p), q), 0)

\* Long division of p by the small integer n, from digit i down: quot
\* holds the quotient digits found so far and rem < n the remainder.
RECURSIVE DivDigits(_, _, _, _, _)
DivDigits(p, n, i, quot, rem) ==
    IF i = 0 THEN [q |-> TrimDigits(quot), rem |-> rem]
    ELSE LET r == rem * Radix + p[i]
         IN  DivDigits(p, n, i - 1, <<r \div n>> \o quot, r % n)

RECURSIVE BitLenOfDigit(_)
BitLenOfDigit(k) == IF k = 0 THEN 0 ELSE 1 + BitLenOfDigit(k \div 2)

\* The number of bits of a trimmed p.
BitLen(p) ==
    IF p = <<>> THEN 0 ELSE 15 * (Len(p) - 1) + BitLenOfDigit(p[Len(p)])

\* p with its bits moved k places down, the low k bits dropped.
ShiftRight(p, k) ==
    LET w == k \div 15
        s == k % 15
        r == IF w >= Len(p) THEN <<>> ELSE SubSeq(p, w + 1, Len(p))
    IN  TrimDigits(
            [i \in 1..Len(r) |->
                (r[i] \div Pow2(s))
                + (IF i < Len(r) THEN (r[i + 1] % Pow2(s)) * Pow2(15 - s)
                   ELSE 0)])

\* p with its bits moved k places up.
ShiftLeft(p, k) ==
    LET w == k \div 15
        s == k % 15
        r == [i \in 1..(Len(p) + 1) |->
                 (IF i <= Len(p) THEN (p[i] % Pow2(15 - s)) * Pow2(s) ELSE 0)
                 + (IF i > 1 THEN p[i - 1] \div Pow2(15 - s) ELSE 0)]
    IN  IF p = <<>> THEN <<>> ELSE TrimDigits(Zeros(w) \o r)

\* Bit j of p, bit 0 the lowest.
BitAt(p, j) ==
    IF j \div 15 >= Len(p) THEN 0
    ELSE (p[(j \div 15) + 1] \div Pow2(j % 15)) % 2

\* Some bit of p below bit k is 1.
AnyBitBelow(p, k) == \E j \in 0..(k - 1) : BitAt(p, j) = 1

Zero64 == [neg |-> FALSE, mag |-> <<>>, exp |-> 0]

\* Round to nearest, ties to even: the binary64 number nearest to
\* (-1)^neg * (mag + f) * 2^exp, where 0 <= f < 1 and sticky says f > 0
\* (sticky only with a mag of more than 53 bits).
RoundNearestEven(neg, mag, exp, sticky) ==
    LET len == BitLen(mag)
        k   == len - Precision
    IN  IF len = 0 THEN Zero64
        ELSE IF k <= 0
        THEN [neg |-> neg, mag |-> ShiftLeft(mag, -k), exp |-> exp + k]
        ELSE LET q    == ShiftRight(mag, k)
                 rest == sticky \/ AnyBitBelow(mag, k - 1)
                 up   == BitAt(mag, k - 1) = 1 /\ (rest \/ BitAt(q, 0) = 1)
                 r    == IF up THEN AddDigits(q, <<1>>, 0) ELSE q
             IN  IF BitLen(r) > Precision
                 THEN [neg |-> neg, mag |-> ShiftRight(r, 1),
                       exp |-> exp + k + 1]
                 ELSE [neg |-> neg, mag |-> r, exp |-> exp + k]

\* The binary64 number of a small integer.
FromInt(k) == RoundNearestEven(k < 0, DigitsOf(AbsInt(k)), 0, FALSE)

\* x + y.
FAdd(x, y) ==
    LET e  == MinInt(x.exp, y.exp)
        mx == ShiftLeft(x.mag, x.exp - e)
        my == ShiftLeft(y.mag, y.exp - e)
    IN  IF x.mag = <<>> THEN y
        ELSE IF y.mag = <<>> THEN x
        ELSE IF x.neg = y.neg
        THEN RoundNearestEven(x.neg, AddDigits(mx, my, 0), e, FALSE)
        ELSE IF LessDigits(mx, my)
        THEN RoundNearestEven(y.neg, TrimDigits(SubDigits(my, mx, 0)), e,
                              FALSE)
        ELSE RoundNearestEven(x.neg, TrimDigits(SubDigits(mx, my, 0)), e,
                              FALSE)

\* x - y.
FSub(x, y) == FAdd(x, [y EXCEPT !.neg = (y.mag # <<>>) /\ ~y.neg])

\* x * y.
FMul(x, y) ==
    RoundNearestEven(x.neg # y.neg, TrimDigits(MulDigits(x.mag, y.mag)),
                     x.exp + y.exp, FALSE)

\* x / count for an integer count > 0: the quotient is carried 75 bits
\* below the lowest bit of x before it is rounded.
FDivInt(x, count) ==
    LET wide == Zeros(5) \o x.mag
        d    == DivDigits(wide, count, Len(wide), <<>>, 0)
    IN  IF x.mag = <<>> THEN Zero64
        ELSE RoundNearestEven(x.neg, d.q, x.exp - 75, d.rem # 0)

\* Line 146: Number(s) for the decimal text of numer / denom, the binary64
\* number nearest to it.
Decimal(numer, denom) == FDivInt(FromInt(numer), denom)

\* arr.reduce((a, b) => a + b, 0): the sum from acc on.
RECURSIVE Sum64(_, _)
Sum64(acc, arr) ==
    IF arr = <<>> THEN acc ELSE Sum64(FAdd(acc, Head(arr)), Tail(arr))

\* Line 150.
mean64(arr) ==
    IF Len(arr) # 0 THEN FDivInt(Sum64(Zero64, arr), Len(arr)) ELSE Undefined

\* Line 155: the reduce; (x - m) ** 2 is taken as the rounded product.
RECURSIVE SumSquares64(_, _, _)
SumSquares64(acc, arr, m) ==
    IF arr = <<>> THEN acc
    ELSE LET dev == FSub(Head(arr), m)
         IN  SumSquares64(FAdd(acc, FMul(dev, dev)), Tail(arr), m)

\* Lines 152-157 returning 0 for the arrays that have no deviation.
sd64ZeroWhenShort(arr) ==
    IF Len(arr) < 2 THEN MathSqrt(Zero64)
    ELSE LET m == mean64(arr)
             v == FDivInt(SumSquares64(Zero64, arr, m), Len(arr) - 1)
         IN  MathSqrt(v)

\* Lines 152-157.
sd64(arr) ==
    IF Len(arr) < 2 THEN Undefined
    ELSE LET m == mean64(arr)
             v == FDivInt(SumSquares64(Zero64, arr, m), Len(arr) - 1)
         IN  MathSqrt(v)

\* The numbers of the cells 0.1, 51.3, 2 and 5.
SdVals == {Decimal(1, 10), Decimal(513, 10), FromInt(2), FromInt(5)}

SdArrays == UNION {[1..n -> SdVals] : n \in 0..MaxSdLen}

InitSd ==
    /\ sdArr \in SdArrays
    /\ sdRet = Undefined
    /\ sdPc = "entry"
    /\ PctIdle
    /\ NoseIdle
    /\ HistIdle
    /\ BandIdle
    /\ DiagIdle
    /\ SessIdle
    /\ PageIdle
    /\ HeapIdle
    /\ GenIdle

\* Line 153.
SdReturnAbsent ==
    /\ sdPc = "entry"
    /\ Len(sdArr) < 2
    /\ sdRet' = sd64(sdArr)
    /\ sdPc' = "done"
    /\ UNCHANGED sdArr
    /\ UNCHANGED <<pctVars, noseVars, histVars, bandVars, diagVars, sessVars,
                   pageVars, heapVars, genVars>>

\* Lines 154-156.
SdReturnRoot ==
    /\ sdPc = "entry"
    /\ ~(Len(sdArr) < 2)
    /\ sdRet' = sd64(sdArr)
    /\ sdPc' = "done"
    /\ UNCHANGED sdArr
    /\ UNCHANGED <<pctVars, noseVars, histVars, bandVars, diagVars, sessVars,
                   pageVars, heapVars, genVars>>

NextSd == SdReturnAbsent \/ SdReturnRoot

SpecSd == InitSd /\ [][NextSd]_vars

(***************************************************************************)
(* Claims about sd                                                         *)
(***************************************************************************)
SdDone == sdPc = "done"

IsConstantArray(arr) == \A i, j \in 1..Len(arr) : arr[i] = arr[j]

\* Every element is the computed mean, so every deviation x - m is 0.
NoDeviation(arr) == \A i \in 1..Len(arr) : arr[i] = mean64(arr)

=============================================================================
